---- MODULE Spec2Model ----
(***************************************************************************)
(* A model of rgb2yuv.hpp (namespace r2y): the buffer-size table, the      *)
(* fixed-point colour matrix, the scope_block ownership type, and the      *)
(* RGB -> YUV transform pipeline with its per-target writers.              *)
(*                                                                         *)
(* Three specifications share the module:                                  *)
(*   SpecPure   calls of the pure functions calculate_size, pixel_convert  *)
(*   SpecBlock  arbitrary sequences of scope_block operations over a heap  *)
(*   SpecWriter one call of transform_to<Tar> on a canonical RGB array     *)
(*   SpecTransform one call of transform<In, Ot>, hand-over by hand-over   *)
(***************************************************************************)
EXTENDS Integers, Sequences, FiniteSets, TLC

VARIABLES
    call,    \* SpecPure: the last pure call, its arguments and its result
    blocks,  \* SpecBlock: the scope_block objects, by slot
    heap,    \* SpecBlock/SpecTransform: every memory region, with its free count
    last,    \* SpecBlock: the last operation with its operands' prior state
    wr,      \* SpecWriter: the transform_to call, its arguments and its effects
    tr       \* SpecTransform: one call of transform<In, Ot>, statement by statement

vars == <<call, blocks, heap, last, wr, tr>>

\* What each specification leaves alone.
notPure == <<blocks, heap, last, wr, tr>>
notBlock == <<call, wr, tr>>
notWriter == <<call, blocks, heap, last, tr>>
notTransform == <<call, blocks, last, wr>>

----------------------------------------------------------------------------
(* Bounds of the model *)

\* Widths and heights of SpecPure range over 0..MaxSide.
MaxSide == 8
\* Channel values of SpecPure are the multiples of ChanStride in 0..255, and 255.
ChanStride == 17
\* SpecBlock: the largest element count asked for, and the length of an
\* operation sequence.
MaxCount == 1
MaxOps == 4
\* SpecWriter: images have up to MaxPixels pixels (and the two-block images
\* of ExtraDims).
MaxPixels == 16
\* SpecTransform: images are up to MaxEdge pixels wide and high.
MaxEdge == 4

----------------------------------------------------------------------------
(* Basic types and constants (rgb2yuv.hpp 56-105) *)

sizeof_byte_t == 1
sizeof_uint16_t == 2
sizeof_rgb_t == 3
sizeof_yuv_t == 3
sizeof_uint32_t == 4

RgbFormats == {"rgb_888", "rgb_565", "rgb_555", "rgb_444", "rgb_888X"}
YuvFormats == {"yuv_NV24", "yuv_NV42", "yuv_YUY2", "yuv_YVYU", "yuv_UYVY",
               "yuv_VYUY", "yuv_422P", "yuv_YV12", "yuv_YU12", "yuv_NV12",
               "yuv_NV21", "yuv_Y41P", "yuv_411P", "yuv_YVU9", "yuv_YUV9"}
supported == RgbFormats \cup YuvFormats

YuvPlanes == {"plane_Y", "plane_U", "plane_V"}
RgbPlanes == {"plane_R", "plane_G", "plane_B"}
plane_type == YuvPlanes \cup RgbPlanes

\* x >> n and x << n on non-negative or negative integers; >> floors, as the
\* arithmetic shift of a two's complement int32_t does.
Shr(x, n) == x \div (2 ^ n)
Shl(x, n) == x * (2 ^ n)

----------------------------------------------------------------------------
(* Buffer sizes: detail_create_buffer_::impl_<S>::size and calculate_size *)

\* The assert inside size(): TRUE where the specialisation asserts nothing.
size_assert(S, in_w, in_h) ==
    LET s == in_w * in_h IN
    CASE S \in {"yuv_YUY2", "yuv_YVYU", "yuv_UYVY", "yuv_VYUY", "yuv_422P"}
            -> s % 2 = 0
      [] S = "yuv_Y41P" -> s % 8 = 0
      [] S \in {"yuv_411P", "yuv_YV12", "yuv_YU12", "yuv_NV12", "yuv_NV21"}
            -> s % 4 = 0
      [] S \in {"yuv_YVU9", "yuv_YUV9"} -> s % 16 = 0
      [] OTHER -> TRUE

\* A slip of the rgb_444 rounding and of the 4:1:0 shift.
size_slip(S, in_w, in_h) ==
    LET s == in_w * in_h IN
    CASE S = "rgb_888" -> s * sizeof_rgb_t
      [] S \in {"rgb_565", "rgb_555"} -> s * sizeof_uint16_t
      [] S = "rgb_444" -> Shr(s * 3, 1)
      [] S = "rgb_888X" -> s * sizeof_uint32_t
      [] S \in {"yuv_NV24", "yuv_NV42"} -> s * sizeof_yuv_t
      [] S \in {"yuv_YUY2", "yuv_YVYU", "yuv_UYVY", "yuv_VYUY", "yuv_422P"}
            -> Shl(s, 1)
      [] S = "yuv_Y41P" -> s + Shr(s, 1)
      [] S \in {"yuv_411P", "yuv_YV12", "yuv_YU12", "yuv_NV12", "yuv_NV21"}
            -> s + Shr(s, 2)
      [] S \in {"yuv_YVU9", "yuv_YUV9"} -> s + Shr(s, 4)

size(S, in_w, in_h) ==
    LET s == in_w * in_h IN
    CASE S = "rgb_888" -> s * sizeof_rgb_t
      [] S \in {"rgb_565", "rgb_555"} -> s * sizeof_uint16_t
      [] S = "rgb_444" -> Shr(s * 3 + 1, 1)
      [] S = "rgb_888X" -> s * sizeof_uint32_t
      [] S \in {"yuv_NV24", "yuv_NV42"} -> s * sizeof_yuv_t
      [] S \in {"yuv_YUY2", "yuv_YVYU", "yuv_UYVY", "yuv_VYUY", "yuv_422P"}
            -> Shl(s, 1)
      [] S = "yuv_Y41P" -> s + Shr(s, 1)
      [] S \in {"yuv_411P", "yuv_YV12", "yuv_YU12", "yuv_NV12", "yuv_NV21"}
            -> s + Shr(s, 1)
      [] S \in {"yuv_YVU9", "yuv_YUV9"} -> s + Shr(s, 3)

calculate_size(S, in_w, in_h) == size(S, in_w, in_h)

----------------------------------------------------------------------------
(* Colour matrix: planes_t, convertor, factor_matrix, pixel_convert *)

\* A struct of three uint8_t is its bytes in declaration order (offsets 0,1,2).
\* rgb_t { b_, g_, r_ }, yuv_t { v_, u_, y_ }, planes_t { c_, b_, a_ }.
rgb_t(r, g, b) == <<b, g, r>>
yuv_t(y, u, v) == <<v, u, y>>

\* A cast that pairs the fields in the opposite order.
planes_cast_reversed(p) == [a_ |-> p[1], b_ |-> p[2], c_ |-> p[3]]

\* planes_t::cast: reinterpret_cast of the three bytes.
planes_cast(p) == [c_ |-> p[1], b_ |-> p[2], a_ |-> p[3]]

clip(value) == IF value < 0 THEN 0 ELSE IF value > 255 THEN 255 ELSE value

\* The Y row without its rounding term.
factor_matrix_norounding ==
    [plane_Y |-> [fa_ |-> 66,  fb_ |-> 129,  fc_ |-> 25,   fd_ |-> 0,      fe_ |-> 16],
     plane_U |-> [fa_ |-> -38, fb_ |-> -74,  fc_ |-> 112,  fd_ |-> 128,    fe_ |-> 128],
     plane_V |-> [fa_ |-> 112, fb_ |-> -94,  fc_ |-> -18,  fd_ |-> 128,    fe_ |-> 128],
     plane_R |-> [fa_ |-> 298, fb_ |-> 0,    fc_ |-> 409,  fd_ |-> -56992, fe_ |-> 0],
     plane_G |-> [fa_ |-> 298, fb_ |-> -100, fc_ |-> -208, fd_ |-> 34784,  fe_ |-> 0],
     plane_B |-> [fa_ |-> 298, fb_ |-> 516,  fc_ |-> 0,    fd_ |-> -70688, fe_ |-> 0]]

\* A U row whose blue factor is 128 in place of 112.
factor_matrix_wideblue ==
    [plane_Y |-> [fa_ |-> 66,  fb_ |-> 129,  fc_ |-> 25,   fd_ |-> 128,    fe_ |-> 16],
     plane_U |-> [fa_ |-> -38, fb_ |-> -74,  fc_ |-> 128,  fd_ |-> 128,    fe_ |-> 128],
     plane_V |-> [fa_ |-> 112, fb_ |-> -94,  fc_ |-> -18,  fd_ |-> 128,    fe_ |-> 128],
     plane_R |-> [fa_ |-> 298, fb_ |-> 0,    fc_ |-> 409,  fd_ |-> -56992, fe_ |-> 0],
     plane_G |-> [fa_ |-> 298, fb_ |-> -100, fc_ |-> -208, fd_ |-> 34784,  fe_ |-> 0],
     plane_B |-> [fa_ |-> 298, fb_ |-> 516,  fc_ |-> 0,    fd_ |-> -70688, fe_ |-> 0]]

factor_matrix ==
    [plane_Y |-> [fa_ |-> 66,  fb_ |-> 129,  fc_ |-> 25,   fd_ |-> 128,    fe_ |-> 16],
     plane_U |-> [fa_ |-> -38, fb_ |-> -74,  fc_ |-> 112,  fd_ |-> 128,    fe_ |-> 128],
     plane_V |-> [fa_ |-> 112, fb_ |-> -94,  fc_ |-> -18,  fd_ |-> 128,    fe_ |-> 128],
     plane_R |-> [fa_ |-> 298, fb_ |-> 0,    fc_ |-> 409,  fd_ |-> -56992, fe_ |-> 0],
     plane_G |-> [fa_ |-> 298, fb_ |-> -100, fc_ |-> -208, fd_ |-> 34784,  fe_ |-> 0],
     plane_B |-> [fa_ |-> 298, fb_ |-> 516,  fc_ |-> 0,    fd_ |-> -70688, fe_ |-> 0]]

\* convertor::convert, the int32_t value handed to clip.
convert_value(f, in_p) ==
    Shr(f.fa_ * in_p.a_ + f.fb_ * in_p.b_ + f.fc_ * in_p.c_ + f.fd_, 8) + f.fe_

\* convertor::convert
convert(f, in_p) == clip(convert_value(f, in_p))

\* pixel_convert<P>(planes_t const &) and its rgb_t / yuv_t overloads: the
\* pixel is the three bytes of the struct handed in.
pixel_convert(P, in_p) == convert(factor_matrix[P], planes_cast(in_p))

----------------------------------------------------------------------------
(* Memory: allocator, and the regions it and the caller hand out *)

NULL == 0

\* A region: who obtained it ("alloc": AllocT::alloc, "caller": storage the
\* caller owns), how many times AllocT::free was called on it, and whether
\* dismiss() handed it back to the caller.
Region(origin) == [origin |-> origin, frees |-> 0, dismissed |-> FALSE]

\* allocator::alloc(nbytes): NULL for 0 bytes or when operator new(nothrow)
\* fails (ok = FALSE), else a fresh region. Returns <<pointer, heap>>.
alloc(h, nbytes, ok) ==
    IF nbytes = 0 \/ ~ok THEN <<NULL, h>>
    ELSE <<Len(h) + 1, Append(h, Region("alloc"))>>

\* allocator::free(ptr): operator delete; a no-op on NULL.
free(h, ptr) == IF ptr = NULL THEN h ELSE [h EXCEPT ![ptr].frees = @ + 1]

----------------------------------------------------------------------------
(* scope_block<T, AllocT> *)

ElemTypes == {"byte_t", "uint16_t", "rgb_t"}

sizeof(T) ==
    CASE T = "byte_t" -> sizeof_byte_t
      [] T = "uint16_t" -> sizeof_uint16_t
      [] T = "rgb_t" -> sizeof_rgb_t

\* The member initialisers block_(NULL), count_(0), trust_(false).
EmptyBlock(T) ==
    [live |-> TRUE, T |-> T, block_ |-> NULL, count_ |-> 0, trust_ |-> FALSE]

\* A slot that holds no object (never constructed, or destroyed).
NoBlock == [live |-> FALSE, T |-> "byte_t", block_ |-> NULL, count_ |-> 0,
            trust_ |-> FALSE]

\* scope_block::size(): count() * sizeof(T)
block_size(b) == b.count_ * sizeof(b.T)

\* A destructor that frees whatever the block points to.
destructor_unconditional(b, h) == free(h, b.block_)

\* ~scope_block(): if (trust_) AllocT::free(block_). Returns the heap.
destructor(b, h) == IF b.trust_ THEN free(h, b.block_) ELSE h

\* reset(size_t count). Returns <<block, heap>>.
reset_count(b, h, count, ok) ==
    LET h1 == destructor(b, h)
        b1 == [b EXCEPT !.count_ = count]
        a == alloc(h1, block_size(b1), ok)
    IN <<[b1 EXCEPT !.block_ = a[1], !.trust_ = TRUE], a[2]>>

\* reset(block, count) that takes ownership of the caller's memory.
reset_wrap_trusting(b, h, ptr, count) ==
    <<[b EXCEPT !.count_ = count, !.block_ = ptr, !.trust_ = TRUE],
      destructor(b, h)>>

\* reset(T * block, size_t count). Returns <<block, heap>>.
reset_wrap(b, h, ptr, count) ==
    <<[b EXCEPT !.count_ = count, !.block_ = ptr, !.trust_ = FALSE],
      destructor(b, h)>>

\* swap(scope_block & rhs), same element type. Returns <<this, rhs>>.
swap_same(ths, rhs) ==
    <<[ths EXCEPT !.block_ = rhs.block_, !.count_ = rhs.count_,
                  !.trust_ = rhs.trust_],
      [rhs EXCEPT !.block_ = ths.block_, !.count_ = ths.count_,
                  !.trust_ = ths.trust_]>>

\* A cross-type swap that exchanges the counts without re-splitting.
swap_cross_nosplit(ths, rhs) == swap_same(ths, rhs)

\* A cross-type swap that copies the trust flag instead of exchanging it.
swap_cross_keeptrust(ths, rhs) ==
    <<[ths EXCEPT !.block_ = rhs.block_,
                  !.count_ = block_size(rhs) \div sizeof(ths.T),
                  !.trust_ = rhs.trust_],
      [rhs EXCEPT !.block_ = ths.block_,
                  !.count_ = block_size(ths) \div sizeof(rhs.T)]>>

\* template <typename U> swap(scope_block<U, AllocT> & rhs): the pointers and
\* the trust flags are exchanged, the counts re-split from the byte sizes.
swap_cross(ths, rhs) ==
    LET ths_size == block_size(ths)
        rhs_size == block_size(rhs)
    IN <<[ths EXCEPT !.block_ = rhs.block_,
                     !.count_ = rhs_size \div sizeof(ths.T),
                     !.trust_ = rhs.trust_],
         [rhs EXCEPT !.block_ = ths.block_,
                     !.count_ = ths_size \div sizeof(rhs.T),
                     !.trust_ = ths.trust_]>>

\* a.swap(b): overload resolution takes the non-template swap for the same
\* element type and the template for another.
swap(ths, rhs) ==
    IF ths.T = rhs.T THEN swap_same(ths, rhs) ELSE swap_cross(ths, rhs)

\* move(rhs): this->swap(const_cast<...>(rhs)).
move(ths, rhs) == swap(ths, rhs)

\* Construction of a scope_block<T> from a scope_block<U>. For U # T the
\* template constructor runs: an empty block, then move(rhs). For U = T the
\* template is not a copy constructor, so the implicitly declared copy
\* constructor is chosen: a memberwise copy that leaves rhs as it was.
\* Returns <<the new block, rhs>>.
construct_from(T, rhs) ==
    IF T = rhs.T THEN <<[rhs EXCEPT !.live = TRUE], rhs>>
    ELSE move(EmptyBlock(T), rhs)

\* dismiss(): returns <<data_ret, block>>.
dismiss(b) ==
    <<b.block_, [b EXCEPT !.block_ = NULL, !.count_ = 0, !.trust_ = FALSE]>>

----------------------------------------------------------------------------
(* SpecBlock: any sequence of at most MaxOps scope_block operations on the *)
(* objects of Slots, over a heap that starts with one caller-owned region  *)

\* SpecPure's variable while no pure call has been made.
NoCall == [op |-> "none", tag |-> "none", w |-> 0, h |-> 0,
           c1 |-> 0, c2 |-> 0, c3 |-> 0, ret |-> 0, ok |-> TRUE]

\* SpecWriter's variable while transform_to has not been called.
NoWr == [op |-> "none"]

\* SpecTransform's variable while transform has not been called.
NoTr == [pc |-> "none"]

\* Two objects: no operation involves more than a receiver and an argument.
Slots == {1, 2}
Counts == 0 .. MaxCount

NoBlocks == [i \in Slots |-> NoBlock]
NoHeap == <<Region("caller")>>

\* The last operation: its name, the receiver and argument slots (0: none),
\* the two objects as they were before it, whether its allocation failed,
\* the pointer it returned, and the number of operations so far.
NoLast == [op |-> "none", ths |-> 0, rhs |-> 0, pre_ths |-> NoBlock,
           pre_rhs |-> NoBlock, failed |-> FALSE, ret |-> NULL, n |-> 0]

Done(op, i, j, pre_i, pre_j, failed, ret) ==
    [op |-> op, ths |-> i, rhs |-> j, pre_ths |-> pre_i, pre_rhs |-> pre_j,
     failed |-> failed, ret |-> ret, n |-> last.n + 1]

\* What a caller wraps: NULL or storage of its own, which includes what
\* dismiss() has handed to it.
Pointers ==
    {NULL} \cup {p \in 1 .. Len(heap) : heap[p].origin = "caller" \/ heap[p].dismissed}

InitBlock ==
    /\ call = NoCall
    /\ blocks = NoBlocks
    /\ heap = NoHeap
    /\ last = NoLast
    /\ wr = NoWr
    /\ tr = NoTr

\* scope_block(size_t count)
Construct(i) ==
    /\ last.n < MaxOps /\ ~blocks[i].live
    /\ \E T \in ElemTypes, count \in Counts, ok \in BOOLEAN :
        LET r == reset_count(EmptyBlock(T), heap, count, ok) IN
        /\ blocks' = [blocks EXCEPT ![i] = r[1]]
        /\ heap' = r[2]
        /\ last' = Done("construct", i, 0, blocks[i], NoBlock,
                        count * sizeof(T) # 0 /\ ~ok, NULL)
    /\ UNCHANGED notBlock

\* scope_block(T * block, size_t count)
ConstructWrap(i) ==
    /\ last.n < MaxOps /\ ~blocks[i].live
    /\ \E T \in ElemTypes, ptr \in Pointers, count \in Counts :
        LET r == reset_wrap(EmptyBlock(T), heap, ptr, count) IN
        /\ blocks' = [blocks EXCEPT ![i] = r[1]]
        /\ heap' = r[2]
        /\ last' = Done("construct_wrap", i, 0, blocks[i], NoBlock, FALSE, NULL)
    /\ UNCHANGED notBlock

\* scope_block<T> i(j): construction from another scope_block
ConstructFrom(i, j) ==
    /\ last.n < MaxOps /\ ~blocks[i].live /\ blocks[j].live /\ i # j
    /\ \E T \in ElemTypes :
        LET r == construct_from(T, blocks[j]) IN
        /\ blocks' = [blocks EXCEPT ![i] = r[1], ![j] = r[2]]
        /\ last' = Done("construct_from", i, j, EmptyBlock(T), blocks[j],
                        FALSE, NULL)
    /\ UNCHANGED <<heap>>
    /\ UNCHANGED notBlock

\* The end of the object's lifetime: ~scope_block()
Destroy(i) ==
    /\ last.n < MaxOps /\ blocks[i].live
    /\ heap' = destructor(blocks[i], heap)
    /\ blocks' = [blocks EXCEPT ![i] = NoBlock]
    /\ last' = Done("destroy", i, 0, blocks[i], NoBlock, FALSE, NULL)
    /\ UNCHANGED notBlock

\* reset(size_t count)
Reset(i) ==
    /\ last.n < MaxOps /\ blocks[i].live
    /\ \E count \in Counts, ok \in BOOLEAN :
        LET r == reset_count(blocks[i], heap, count, ok) IN
        /\ blocks' = [blocks EXCEPT ![i] = r[1]]
        /\ heap' = r[2]
        /\ last' = Done("reset", i, 0, blocks[i], NoBlock,
                        count * sizeof(blocks[i].T) # 0 /\ ~ok, NULL)
    /\ UNCHANGED notBlock

\* reset(T * block, size_t count)
ResetWrap(i) ==
    /\ last.n < MaxOps /\ blocks[i].live
    /\ \E ptr \in Pointers, count \in Counts :
        LET r == reset_wrap(blocks[i], heap, ptr, count) IN
        /\ blocks' = [blocks EXCEPT ![i] = r[1]]
        /\ heap' = r[2]
        /\ last' = Done("reset_wrap", i, 0, blocks[i], NoBlock, FALSE, NULL)
    /\ UNCHANGED notBlock

\* trust(bool t)
Trust(i) ==
    /\ last.n < MaxOps /\ blocks[i].live
    /\ \E t \in BOOLEAN :
        /\ blocks' = [blocks EXCEPT ![i].trust_ = t]
        /\ last' = Done("trust", i, 0, blocks[i], NoBlock, FALSE, NULL)
    /\ UNCHANGED <<heap>>
    /\ UNCHANGED notBlock

\* i.move(j)
Move(i, j) ==
    /\ last.n < MaxOps /\ blocks[i].live /\ blocks[j].live /\ i # j
    /\ LET r == move(blocks[i], blocks[j]) IN
        /\ blocks' = [blocks EXCEPT ![i] = r[1], ![j] = r[2]]
        /\ last' = Done("move", i, j, blocks[i], blocks[j], FALSE, NULL)
    /\ UNCHANGED <<heap>>
    /\ UNCHANGED notBlock

\* i.swap(j), and the free function swap(i, j)
Swap(i, j) ==
    /\ last.n < MaxOps /\ blocks[i].live /\ blocks[j].live /\ i # j
    /\ LET r == swap(blocks[i], blocks[j]) IN
        /\ blocks' = [blocks EXCEPT ![i] = r[1], ![j] = r[2]]
        /\ last' = Done("swap", i, j, blocks[i], blocks[j], FALSE, NULL)
    /\ UNCHANGED <<heap>>
    /\ UNCHANGED notBlock

\* dismiss(): the caller takes the pointer
Dismiss(i) ==
    /\ last.n < MaxOps /\ blocks[i].live
    /\ LET r == dismiss(blocks[i]) IN
        /\ blocks' = [blocks EXCEPT ![i] = r[2]]
        /\ heap' = IF r[1] = NULL THEN heap
                   ELSE [heap EXCEPT ![r[1]].dismissed = TRUE]
        /\ last' = Done("dismiss", i, 0, blocks[i], NoBlock, FALSE, r[1])
    /\ UNCHANGED notBlock

NextBlock ==
    \/ \E i \in Slots : Construct(i)
    \/ \E i \in Slots : ConstructWrap(i)
    \/ \E i \in Slots, j \in Slots : ConstructFrom(i, j)
    \/ \E i \in Slots : Destroy(i)
    \/ \E i \in Slots : Reset(i)
    \/ \E i \in Slots : ResetWrap(i)
    \/ \E i \in Slots : Trust(i)
    \/ \E i \in Slots, j \in Slots : Move(i, j)
    \/ \E i \in Slots, j \in Slots : Swap(i, j)
    \/ \E i \in Slots : Dismiss(i)

SpecBlock == InitBlock /\ [][NextBlock]_vars

\* scope_block<T> i(j) with j of another element type: the template
\* constructor.
ConstructCross(i, j) ==
    /\ last.n < MaxOps /\ ~blocks[i].live /\ blocks[j].live /\ i # j
    /\ \E T \in ElemTypes \ {blocks[j].T} :
        LET r == construct_from(T, blocks[j]) IN
        /\ blocks' = [blocks EXCEPT ![i] = r[1], ![j] = r[2]]
        /\ last' = Done("construct_from", i, j, EmptyBlock(T), blocks[j],
                        FALSE, NULL)
    /\ UNCHANGED <<heap>>
    /\ UNCHANGED notBlock

\* SpecOwn: the sequences of SpecBlock made of acquire, wrap, transfer
\* (move, swap, construction across element types), dismiss and
\* destruction only: no trust(bool), no construction from the same type.
NextOwn ==
    \/ \E i \in Slots : Construct(i)
    \/ \E i \in Slots : ConstructWrap(i)
    \/ \E i \in Slots, j \in Slots : ConstructCross(i, j)
    \/ \E i \in Slots : Destroy(i)
    \/ \E i \in Slots : Reset(i)
    \/ \E i \in Slots : ResetWrap(i)
    \/ \E i \in Slots, j \in Slots : Move(i, j)
    \/ \E i \in Slots, j \in Slots : Swap(i, j)
    \/ \E i \in Slots : Dismiss(i)

SpecOwn == InitBlock /\ [][NextOwn]_vars

----------------------------------------------------------------------------
(* SpecPure: one call of a pure function, its arguments drawn from bounded *)
(* sets; the functions keep no state, so one call per behaviour is every   *)
(* call.                                                                   *)

Sides == 0 .. MaxSide
Dims == (Sides \X Sides) \cup {<<640, 480>>}
Channels == {v \in 0 .. 255 : v % ChanStride = 0} \cup {255}

InitPure ==
    /\ call = NoCall
    /\ blocks = NoBlocks
    /\ heap = NoHeap
    /\ last = NoLast
    /\ wr = NoWr
    /\ tr = NoTr

\* calculate_size<S>(in_w, in_h); ok records whether size()'s assert holds.
CalculateSize ==
    /\ call.op = "none"
    /\ \E S \in supported, d \in Dims :
        /\ call' = [op |-> "calculate_size", tag |-> S, w |-> d[1], h |-> d[2],
                    c1 |-> 0, c2 |-> 0, c3 |-> 0,
                    ret |-> calculate_size(S, d[1], d[2]),
                    ok |-> size_assert(S, d[1], d[2])]
        /\ UNCHANGED notPure

\* pixel_convert<P>(rgb_t const &), P a YUV plane (enable_if is_yuv_plane).
PixelConvertRgb ==
    /\ call.op = "none"
    /\ \E P \in YuvPlanes, r \in Channels, g \in Channels, b \in Channels :
        /\ call' = [op |-> "pixel_convert", tag |-> P, w |-> 0, h |-> 0,
                    c1 |-> r, c2 |-> g, c3 |-> b,
                    ret |-> pixel_convert(P, rgb_t(r, g, b)), ok |-> TRUE]
        /\ UNCHANGED notPure

\* pixel_convert<P>(yuv_t const &), P an RGB plane (enable_if is_rgb_plane).
PixelConvertYuv ==
    /\ call.op = "none"
    /\ \E P \in RgbPlanes, y \in Channels, u \in Channels, v \in Channels :
        /\ call' = [op |-> "pixel_convert", tag |-> P, w |-> 0, h |-> 0,
                    c1 |-> y, c2 |-> u, c3 |-> v,
                    ret |-> pixel_convert(P, yuv_t(y, u, v)), ok |-> TRUE]
        /\ UNCHANGED notPure

NextPure == CalculateSize \/ PixelConvertRgb \/ PixelConvertYuv

SpecPure == InitPure /\ [][NextPure]_vars

----------------------------------------------------------------------------
(* C1: calculate_size against the size table *)

\* The table's divisibility precondition on the pixel count.
C1_Precondition(S, pixels) ==
    CASE S \in {"yuv_YUY2", "yuv_YVYU", "yuv_UYVY", "yuv_VYUY", "yuv_422P"}
            -> pixels % 2 = 0
      [] S \in {"yuv_YV12", "yuv_YU12", "yuv_NV12", "yuv_NV21", "yuv_411P"}
            -> pixels % 4 = 0
      [] S = "yuv_Y41P" -> pixels % 8 = 0
      [] S \in {"yuv_YVU9", "yuv_YUV9"} -> pixels % 16 = 0
      [] OTHER -> TRUE

\* The table's formula.
C1_Table(S, pixels) ==
    CASE S = "rgb_888" -> pixels * 3
      [] S = "rgb_888X" -> pixels * 4
      [] S \in {"rgb_565", "rgb_555"} -> pixels * 2
      [] S = "rgb_444" -> (pixels * 3 + 1) \div 2
      [] S \in {"yuv_NV24", "yuv_NV42"} -> pixels * 3
      [] S \in {"yuv_YUY2", "yuv_YVYU", "yuv_UYVY", "yuv_VYUY", "yuv_422P"}
            -> pixels * 2
      [] S \in {"yuv_YV12", "yuv_YU12", "yuv_NV12", "yuv_NV21", "yuv_Y41P",
                "yuv_411P"} -> pixels + pixels \div 2
      [] S \in {"yuv_YVU9", "yuv_YUV9"} -> pixels + pixels \div 8

\* C1: for every format tag and every (width, height) that satisfies the
\* tag's divisibility precondition, calculate_size returns the table's
\* formula of pixels = width * height, its own assert holds, and 640x480
\* YU12 gives 460800.
C1_SizeMatchesTable ==
    call.op = "calculate_size" /\ C1_Precondition(call.tag, call.w * call.h)
        => /\ call.ret = C1_Table(call.tag, call.w * call.h)
           /\ call.ok
           /\ (call.tag = "yuv_YU12" /\ call.w = 640 /\ call.h = 480
                  => call.ret = 460800)

\* The 640x480 YU12 call has returned.
C1_Witness ==
    /\ call.op = "calculate_size"
    /\ call.tag = "yuv_YU12" /\ call.w = 640 /\ call.h = 480
    /\ call.ret = 460800

----------------------------------------------------------------------------
(* C2, C3: pixel_convert against the matrix formula *)

\* Saturation to [0,255].
C2_Saturate(x) == IF x < 0 THEN 0 ELSE IF x > 255 THEN 255 ELSE x

\* floor(x / 256), the flooring shift by 8.
C2_Floor256(x) == IF x >= 0 THEN x \div 256 ELSE -((255 - x) \div 256)

\* clip(((a*c1 + b*c2 + c*c3 + d) >> 8) + e) for row P and channels c1,c2,c3.
C2_Formula(P, c1, c2, c3) ==
    LET f == factor_matrix[P] IN
    C2_Saturate(C2_Floor256(f.fa_ * c1 + f.fb_ * c2 + f.fc_ * c3 + f.fd_) + f.fe_)

\* C2: for every plane role P and every 3-channel input, pixel_convert<P>
\* returns clip(((a*c1 + b*c2 + c*c3 + d) >> 8) + e) with P's row, where
\* (c1,c2,c3) = (R,G,B) of the rgb_t pixel for P in Y,U,V and (Y,U,V) of the
\* yuv_t pixel for P in R,G,B; the result is a byte.
C2_PixelConvertFormula ==
    call.op = "pixel_convert"
        => /\ call.ret = C2_Formula(call.tag, call.c1, call.c2, call.c3)
           /\ call.ret \in 0 .. 255

\* An RGB plane computed from a yuv_t pixel with three different channels,
\* the result not saturated.
C2_Witness ==
    /\ call.op = "pixel_convert" /\ call.tag = "plane_R"
    /\ call.c1 # call.c2 /\ call.c2 # call.c3 /\ call.c1 # call.c3
    /\ call.ret \in 1 .. 254

\* The conversion of the pixel R=255, G=0, B=0 to plane P has returned.
C3_RedConverted(P) ==
    /\ call.op = "pixel_convert" /\ call.tag = P
    /\ call.c1 = 255 /\ call.c2 = 0 /\ call.c3 = 0

\* C3 as stated: the RGB pixel (255, 0, 0) converts to Y = 81, U = 90 and
\* V = 240.
C3_Original ==
    /\ C3_RedConverted("plane_Y") => call.ret = 81
    /\ C3_RedConverted("plane_U") => call.ret = 90
    /\ C3_RedConverted("plane_V") => call.ret = 240

\* C3 as amended: the RGB pixel (255, 0, 0) converts to Y = 82, U = 90 and
\* V = 240 ((66*255 + 128) >> 8 is 66, and 66 + 16 = 82).
C3_RedPixel ==
    /\ C3_RedConverted("plane_Y") => call.ret = 82
    /\ C3_RedConverted("plane_U") => call.ret = 90
    /\ C3_RedConverted("plane_V") => call.ret = 240

\* The Y conversion of (255, 0, 0) has returned 82.
C3_Witness == C3_RedConverted("plane_Y") /\ call.ret = 82

----------------------------------------------------------------------------
(* C4 - C7: scope_block, checked under SpecBlock *)

\* The last operation was a transfer from last.rhs into last.ths: move, or
\* the construction of a block from a block of another element type.
C4_Transferred ==
    \/ last.op = "move"
    \/ last.op = "construct_from" /\ last.pre_ths.T # last.pre_rhs.T

\* The regions that destroying block b now would call AllocT::free on.
C4_FreedBy(b) ==
    {p \in 1 .. Len(heap) : b.trust_ /\ b.block_ = p}

\* C4 as stated: a transfer from an owning source leaves the source not
\* owned whatever the receiver was before (empty, borrowed or owning):
\* destroying the source frees no memory and destroying the receiver frees
\* the transferred region.
C4_Original ==
    C4_Transferred /\ last.pre_rhs.trust_ /\ last.pre_rhs.block_ # NULL
        => /\ C4_FreedBy(blocks[last.rhs]) = {}
           /\ C4_FreedBy(blocks[last.ths]) = {last.pre_rhs.block_}

\* C4 as amended: a transfer exchanges the pointers and the trust flags, so
\* the receiver takes the source's ownership and the source takes the
\* receiver's prior state. When the receiver was not trusted before (empty
\* or borrowed) the source is left not owned, destroying it frees nothing,
\* and destroying the receiver frees the transferred region if the source
\* owned it; when the receiver owned a region, the source owns that region
\* afterwards and destroying the source frees it.
C4_TransferExchanges ==
    C4_Transferred
        => /\ blocks[last.ths].block_ = last.pre_rhs.block_
           /\ blocks[last.ths].trust_ = last.pre_rhs.trust_
           /\ blocks[last.rhs].block_ = last.pre_ths.block_
           /\ blocks[last.rhs].trust_ = last.pre_ths.trust_
           /\ (~last.pre_ths.trust_
                 => /\ ~blocks[last.rhs].trust_
                    /\ C4_FreedBy(blocks[last.rhs]) = {}
                    /\ (last.pre_rhs.trust_
                          => C4_FreedBy(blocks[last.ths])
                                = {last.pre_rhs.block_} \ {NULL}))
           /\ (last.pre_ths.trust_
                 => C4_FreedBy(blocks[last.rhs]) = {last.pre_ths.block_} \ {NULL})

\* A cross-type move of an owned region into a borrowed receiver.
C4_Witness ==
    /\ last.op = "move" /\ last.pre_ths.T # last.pre_rhs.T
    /\ last.pre_rhs.trust_ /\ last.pre_rhs.block_ # NULL
    /\ ~last.pre_ths.trust_ /\ last.pre_ths.block_ # NULL
    /\ blocks[last.ths].trust_ /\ ~blocks[last.rhs].trust_

\* The heap after both objects of the last operation are destroyed.
C5_BothDestroyed ==
    destructor(blocks[last.ths], destructor(blocks[last.rhs], heap))

\* C5: constructing a scope_block from another always takes the ownership,
\* also for the same element type: afterwards the source is not trusted, and
\* destroying both objects frees the region exactly once.
C5_Original ==
    (/\ last.op = "construct_from"
     /\ last.pre_rhs.trust_ /\ last.pre_rhs.block_ # NULL
     /\ heap[last.pre_rhs.block_].frees = 0)
        => /\ ~blocks[last.rhs].trust_
           /\ blocks[last.ths].trust_
           /\ C5_BothDestroyed[last.pre_rhs.block_].frees = 1

\* The block sizes in bytes before a cross-type reinterpretation.
C6_Reinterpreted ==
    /\ last.op \in {"swap", "move", "construct_from"}
    /\ last.pre_ths.T # last.pre_rhs.T

\* C6 as stated: every reinterpretation of a block as another element type
\* preserves the byte size, for every byte size and target element size
\* (stated here for the blocks that hold memory).
C6_Original ==
    C6_Reinterpreted
        => /\ (last.pre_rhs.block_ # NULL
                 => blocks[last.ths].count_ * sizeof(blocks[last.ths].T)
                        = last.pre_rhs.count_ * sizeof(last.pre_rhs.T))
           /\ (last.pre_ths.block_ # NULL
                 => blocks[last.rhs].count_ * sizeof(blocks[last.rhs].T)
                        = last.pre_ths.count_ * sizeof(last.pre_ths.T))

\* The element count and byte size a block of `bytes` bytes has as type T.
C6_Resplit(bytes, T, after) ==
    /\ after.count_ = bytes \div sizeof(T)
    /\ after.count_ * sizeof(T) = bytes - (bytes % sizeof(T))
    /\ (bytes % sizeof(T) = 0 => after.count_ * sizeof(T) = bytes)

\* C6 as amended: a reinterpretation sets the element count to
\* floor(byte size / sizeof(target element)), so the byte size becomes the
\* largest multiple of the target element size not above the source byte
\* size; it is preserved exactly when the source byte size is a multiple of
\* the target element size.
C6_ByteSizeResplit ==
    C6_Reinterpreted
        => /\ C6_Resplit(last.pre_rhs.count_ * sizeof(last.pre_rhs.T),
                         blocks[last.ths].T, blocks[last.ths])
           /\ C6_Resplit(last.pre_ths.count_ * sizeof(last.pre_ths.T),
                         blocks[last.rhs].T, blocks[last.rhs])

\* An allocated rgb_t block of one element (3 bytes) taken over by a
\* uint16_t block: one element, 2 bytes.
C6_Witness ==
    /\ C6_Reinterpreted
    /\ last.pre_rhs.T = "rgb_t" /\ last.pre_rhs.count_ = 1
    /\ last.pre_rhs.block_ # NULL /\ last.pre_rhs.trust_
    /\ blocks[last.ths].T = "uint16_t" /\ blocks[last.ths].count_ = 1
    /\ blocks[last.ths].block_ = last.pre_rhs.block_

\* C7: when the allocator fails in scope_block(count) / reset(count), the
\* block holds a null pointer and an element count of zero.
C7_Original ==
    last.op \in {"construct", "reset"} /\ last.failed
        => /\ blocks[last.ths].block_ = NULL
           /\ blocks[last.ths].count_ = 0

----------------------------------------------------------------------------
(* The writers: detail_transform_::transform_to<Tar>                        *)
(*                                                                         *)
(* A writer runs over the canonical array in_data (a sequence of rgb_t,    *)
(* element i at position i + 1) and stores bytes into the destination      *)
(* ot_data of n bytes. Its effects are kept in a record:                   *)
(*   dest    the destination, offset -> byte, Unwritten where no store hit *)
(*   wcnt    the number of stores per destination offset                   *)
(*   oob     the offsets outside 0..n-1 it stored to                       *)
(*   rd_oob  the indices at or beyond the array's end it read              *)
(*   acc_bad it accessed an accumulator through a null pointer or at an    *)
(*           index at or beyond its element count (undefined behaviour)    *)
(*   acc_uninit  it added to an accumulator entry never assigned           *)
(*   crashed the run ended at an undefined access, which ends every loop   *)
(*   emits   the number of set_and_next calls                              *)
(***************************************************************************)

Unwritten == -1

ToU8(x) == x % 256
ToU16(x) == x % 65536

WriterStart(n) ==
    [dest |-> [o \in 0 .. n - 1 |-> Unwritten],
     wcnt |-> [o \in 0 .. n - 1 |-> 0],
     oob |-> {}, rd_oob |-> {}, acc_bad |-> FALSE, acc_uninit |-> FALSE,
     crashed |-> FALSE, emits |-> 0]

\* *(ot_data.data() + off) = val, val converted to uint8_t.
Store(st, off, val) ==
    IF off \in DOMAIN st.dest
    THEN [st EXCEPT !.dest[off] = ToU8(val), !.wcnt[off] = @ + 1]
    ELSE [st EXCEPT !.oob = @ \cup {off}]

\* in_data[i]: the pixel, <<0,0,0>> standing for what lies beyond the array.
ReadPx(in_data, i) == IF i < Len(in_data) THEN in_data[i + 1] ELSE <<0, 0, 0>>
NoteRead(st, in_data, i) ==
    IF i < Len(in_data) THEN st ELSE [st EXCEPT !.rd_oob = @ \cup {i}]

\* Byte offsets of the fields of the packed records yuv_t<Tar>.
PackedField(Tar, f) ==
    CASE Tar = "yuv_YUY2" -> [y0_ |-> 0, cb_ |-> 1, y1_ |-> 2, cr_ |-> 3][f]
      [] Tar = "yuv_YVYU" -> [y0_ |-> 0, cr_ |-> 1, y1_ |-> 2, cb_ |-> 3][f]
      [] Tar = "yuv_UYVY" -> [cb_ |-> 0, y0_ |-> 1, cr_ |-> 2, y1_ |-> 3][f]
      [] Tar = "yuv_VYUY" -> [cr_ |-> 0, y0_ |-> 1, cb_ |-> 2, y1_ |-> 3][f]

sizeof_yuv_t_422 == 4

\* Byte offsets of yuv_t<yuv_Y41P>: the luma y0_..y7_ and the chroma pairs.
Y41P_y == <<1, 3, 5, 7, 8, 9, 10, 11>>
Y41P_u == <<0, 4>>
Y41P_v == <<2, 6>>
sizeof_yuv_t_Y41P == 12

\* A packed 4:2:2 writer that rounds the pair's sum to nearest.
Packed422Rec_rounding(Tar, in_data, s, i, st) ==
    LET a == ReadPx(in_data, i)
        b == ReadPx(in_data, i + 1)
        base == (i \div 2) * sizeof_yuv_t_422
        st1 == NoteRead(NoteRead(st, in_data, i), in_data, i + 1)
        st2 == Store(st1, base + PackedField(Tar, "y0_"), pixel_convert("plane_Y", a))
        st3 == Store(st2, base + PackedField(Tar, "y1_"), pixel_convert("plane_Y", b))
        u_k == ToU16(pixel_convert("plane_U", a) + pixel_convert("plane_U", b) + 1)
        v_k == ToU16(pixel_convert("plane_V", a) + pixel_convert("plane_V", b) + 1)
        st4 == Store(st3, base + PackedField(Tar, "cb_"), Shr(u_k, 1))
    IN Store(st4, base + PackedField(Tar, "cr_"), Shr(v_k, 1))

\* One turn of the packed 4:2:2 loop: the pixels i and i + 1 into the
\* record at p_yuv.
Packed422Rec(Tar, in_data, s, i, st) ==
    LET a == ReadPx(in_data, i)
        b == ReadPx(in_data, i + 1)
        base == (i \div 2) * sizeof_yuv_t_422
        st1 == NoteRead(NoteRead(st, in_data, i), in_data, i + 1)
        st2 == Store(st1, base + PackedField(Tar, "y0_"), pixel_convert("plane_Y", a))
        st3 == Store(st2, base + PackedField(Tar, "y1_"), pixel_convert("plane_Y", b))
        u_k == ToU16(pixel_convert("plane_U", a) + pixel_convert("plane_U", b))
        v_k == ToU16(pixel_convert("plane_V", a) + pixel_convert("plane_V", b))
        st4 == Store(st3, base + PackedField(Tar, "cb_"), Shr(u_k, 1))
    IN Store(st4, base + PackedField(Tar, "cr_"), Shr(v_k, 1))

\* transform_to<YUY2 | YVYU | UYVY | VYUY>: for (i = 0; i < s; ++p_yuv)
RECURSIVE Packed422(_, _, _, _, _)
Packed422(Tar, in_data, s, i, st) ==
    IF i >= s \/ st.crashed THEN st
    ELSE Packed422(Tar, in_data, s, i + 2, Packed422Rec(Tar, in_data, s, i, st))

\* The sum u_k (or v_k) after the pixels i .. i + n - 1: "=" then "+=".
RECURSIVE GroupSum(_, _, _, _)
GroupSum(P, in_data, i, n) ==
    IF n = 1 THEN pixel_convert(P, ReadPx(in_data, i))
    ELSE ToU16(GroupSum(P, in_data, i, n - 1)
                 + pixel_convert(P, ReadPx(in_data, i + n - 1)))

RECURSIVE NoteReads(_, _, _, _)
NoteReads(st, in_data, i, n) ==
    IF n = 0 THEN st
    ELSE NoteReads(NoteRead(st, in_data, i), in_data, i + 1, n - 1)

\* One turn of the Y41P loop: the pixels i .. i + 7 into the 12-byte record.
RECURSIVE Y41PLuma(_, _, _, _, _)
Y41PLuma(in_data, i, base, I, st) ==
    IF I = 8 THEN st
    ELSE Y41PLuma(in_data, i, base, I + 1,
                  Store(st, base + Y41P_y[I + 1],
                        pixel_convert("plane_Y", ReadPx(in_data, i + I))))

Y41PRec(in_data, i, st) ==
    LET base == (i \div 8) * sizeof_yuv_t_Y41P
        st1 == Y41PLuma(in_data, i, base, 0, NoteReads(st, in_data, i, 8))
        st2 == Store(st1, base + Y41P_u[1], Shr(GroupSum("plane_U", in_data, i, 4), 2))
        st3 == Store(st2, base + Y41P_v[1], Shr(GroupSum("plane_V", in_data, i, 4), 2))
        st4 == Store(st3, base + Y41P_u[2], Shr(GroupSum("plane_U", in_data, i + 4, 4), 2))
    IN Store(st4, base + Y41P_v[2], Shr(GroupSum("plane_V", in_data, i + 4, 4), 2))

\* transform_to<Y41P>
RECURSIVE Y41P(_, _, _, _)
Y41P(in_data, s, i, st) ==
    IF i >= s \/ st.crashed THEN st
    ELSE Y41P(in_data, s, i + 8, Y41PRec(in_data, i, st))

\* split<S, P>: the offset of plane P in the destination.
split(S, P, in_w, in_h) ==
    LET s == in_w * in_h IN
    CASE P = "plane_Y" -> 0
      [] \/ P = "plane_U" /\ S \in {"yuv_YU12", "yuv_411P", "yuv_422P", "yuv_YUV9"}
         \/ P = "plane_V" /\ S \in {"yuv_YV12", "yuv_YVU9"}
            -> s
      [] P = "plane_V" /\ S = "yuv_422P" -> s + Shr(s, 1)
      [] \/ P = "plane_V" /\ S \in {"yuv_YU12", "yuv_411P"}
         \/ P = "plane_U" /\ S = "yuv_YV12"
            -> s + Shr(s, 2)
      [] \/ P = "plane_V" /\ S = "yuv_YUV9"
         \/ P = "plane_U" /\ S = "yuv_YVU9"
            -> s + Shr(s, 4)

SemiPlanar == {"yuv_NV24", "yuv_NV42", "yuv_NV12", "yuv_NV21"}

\* fill<S>: uv_t<S> as the offsets the next cb_ and cr_ stores go to, and
\* the step of one increment (two bytes for the interleaved inner records).
fill(S, in_w, in_h) ==
    IF S \in SemiPlanar
    THEN LET uv_ == split("yuv_YU12", "plane_U", in_w, in_h) IN
         IF S \in {"yuv_NV24", "yuv_NV12"}
         THEN [cb_ |-> uv_, cr_ |-> uv_ + 1, step |-> 2]
         ELSE [cr_ |-> uv_, cb_ |-> uv_ + 1, step |-> 2]
    ELSE [cb_ |-> split(S, "plane_U", in_w, in_h),
          cr_ |-> split(S, "plane_V", in_w, in_h), step |-> 1]

\* ++ on the pointers of uv_t
uv_next(p_uv) == [p_uv EXCEPT !.cb_ = @ + p_uv.step, !.cr_ = @ + p_uv.step]

\* The shift of set_and_next<S>.
set_shift(S) ==
    CASE S = "yuv_422P" -> 1
      [] S \in {"yuv_YV12", "yuv_YU12", "yuv_411P", "yuv_NV12", "yuv_NV21"} -> 2
      [] S \in {"yuv_YUV9", "yuv_YVU9"} -> 4

\* set_and_next<S>(in_u, in_v, ot_uv): the stores; the caller advances p_uv.
set_and_next(S, in_u, in_v, p_uv, st) ==
    LET st1 == Store(st, p_uv.cb_, Shr(in_u, set_shift(S)))
        st2 == Store(st1, p_uv.cr_, Shr(in_v, set_shift(S)))
    IN [st2 EXCEPT !.emits = @ + 1]

\* transform_to<NV24 | NV42>
RECURSIVE Planar444(_, _, _, _, _, _)
Planar444(Tar, in_data, s, i, p_uv, st) ==
    IF i >= s \/ st.crashed THEN st
    ELSE LET rgb == ReadPx(in_data, i)
             st1 == Store(NoteRead(st, in_data, i), i, pixel_convert("plane_Y", rgb))
             st2 == Store(st1, p_uv.cb_, pixel_convert("plane_U", rgb))
             st3 == Store(st2, p_uv.cr_, pixel_convert("plane_V", rgb))
         IN Planar444(Tar, in_data, s, i + 1, uv_next(p_uv), st3)

\* The luma stores of the pixels i .. i + n - 1 through p_y (p_y = i here).
RECURSIVE LumaRun(_, _, _, _)
LumaRun(in_data, i, n, st) ==
    IF n = 0 THEN st
    ELSE LumaRun(in_data, i + 1, n - 1,
                 Store(st, i, pixel_convert("plane_Y", ReadPx(in_data, i))))

\* transform_to<422P> (n = 2) and transform_to<411P> (n = 4): one turn of
\* the loop takes n pixels and ends in set_and_next.
RECURSIVE PlanarH(_, _, _, _, _, _, _)
PlanarH(Tar, n, in_data, s, i, p_uv, st) ==
    IF i >= s \/ st.crashed THEN st
    ELSE LET st1 == LumaRun(in_data, i, n, NoteReads(st, in_data, i, n))
             u_k == GroupSum("plane_U", in_data, i, n)
             v_k == GroupSum("plane_V", in_data, i, n)
         IN PlanarH(Tar, n, in_data, s, i + n, uv_next(p_uv),
                    set_and_next(Tar, u_k, v_k, p_uv, st1))

----------------------------------------------------------------------------
(* The block-subsampling writers and their accumulators u_tmp, v_tmp       *)
(*                                                                         *)
(* An accumulator is a scope_block<uint16_t>(count): null when count = 0   *)
(* or the allocation fails, and never initialised, so every entry starts   *)
(* as the garbage value g. An access through the null pointer or at an     *)
(* index at or beyond count is undefined behaviour; the outcomes kept are  *)
(* "crash" (the run ends at the access) and "wild" (the access hits memory *)
(* next to the block and the run continues).                               *)

UBOutcomes == {"crash", "wild"}
Garbage == {0, 65535}

\* scope_block<uint16_t> u_tmp(count): the block and its entries.
acc_new(count, ok, g, in_w) ==
    LET b == reset_count(EmptyBlock("uint16_t"), <<>>, count, ok)[1] IN
    [null |-> b.block_ = NULL, count |-> b.count_,
     val |-> [k \in 0 .. in_w |-> g], asg |-> {}]

acc_bad(a, k) == a.null \/ k >= a.count

\* u_tmp[k] = x and u_tmp[k] += x on uint16_t entries.
acc_assign(a, k, x) == [a EXCEPT !.val[k] = ToU16(x), !.asg = @ \cup {k}]
acc_add(a, k, x) == [a EXCEPT !.val[k] = ToU16(@ + x)]

\* The loop body shared by the two writers: the luma store of pixel index,
\* then op on u_tmp[k] and v_tmp[k]: "=" assigns, "+=" adds, "emit" adds
\* and passes the sums to set_and_next. L = [st, u_tmp, v_tmp, p_uv].
AccStep(Tar, in_data, index, k, op, L, mode) ==
    LET rgb == ReadPx(in_data, index)
        st1 == Store(NoteRead(L.st, in_data, index), index,
                     pixel_convert("plane_Y", rgb))
        bad == acc_bad(L.u_tmp, k) \/ acc_bad(L.v_tmp, k)
        uninit == op # "=" /\ (k \notin L.u_tmp.asg \/ k \notin L.v_tmp.asg)
        u == pixel_convert("plane_U", rgb)
        v == pixel_convert("plane_V", rgb)
        u1 == IF op = "=" THEN acc_assign(L.u_tmp, k, u) ELSE acc_add(L.u_tmp, k, u)
        v1 == IF op = "=" THEN acc_assign(L.v_tmp, k, v) ELSE acc_add(L.v_tmp, k, v)
        st2 == [st1 EXCEPT !.acc_bad = @ \/ bad, !.acc_uninit = @ \/ uninit]
    IN IF bad /\ mode = "crash"
       THEN [L EXCEPT !.st = [st1 EXCEPT !.acc_bad = TRUE, !.crashed = TRUE]]
       ELSE IF op = "emit"
       THEN [st |-> set_and_next(Tar, u1.val[k], v1.val[k], L.p_uv, st2),
             u_tmp |-> u1, v_tmp |-> v1, p_uv |-> uv_next(L.p_uv)]
       ELSE [L EXCEPT !.st = st2, !.u_tmp = u1, !.v_tmp = v1]

\* A 4:2:0 writer that never assigns: the first pixel of a block adds to
\* what the accumulator holds.
op420_noseed(is_h_even, is_w_even) ==
    IF is_h_even /\ is_w_even THEN "emit" ELSE "+="

\* 4:2:0, the operation at a pixel: rows with is_h_even add and emit at
\* is_w_even; the other rows assign, and add at is_w_even.
op420(is_h_even, is_w_even) ==
    IF is_h_even THEN (IF is_w_even THEN "emit" ELSE "+=")
    ELSE (IF is_w_even THEN "+=" ELSE "=")

\* 4:2:0, the inner loop: for (j = 0; j < in_w; ++j, ++index, is_w_even = !is_w_even)
RECURSIVE Row420(_, _, _, _, _, _, _, _, _)
Row420(Tar, in_data, in_w, is_h_even, j, index, is_w_even, L, mode) ==
    IF j >= in_w \/ L.st.crashed THEN L
    ELSE Row420(Tar, in_data, in_w, is_h_even, j + 1, index + 1, ~is_w_even,
                AccStep(Tar, in_data, index, Shr(j, 1),
                        op420(is_h_even, is_w_even), L, mode),
                mode)

\* 4:2:0, the outer loop: for (i = 0, index = 0; i < in_h; ++i, is_h_even = !is_h_even)
RECURSIVE Rows420(_, _, _, _, _, _, _, _)
Rows420(Tar, in_data, in_w, in_h, i, is_h_even, L, mode) ==
    IF i >= in_h \/ L.st.crashed THEN L
    ELSE Rows420(Tar, in_data, in_w, in_h, i + 1, ~is_h_even,
                 Row420(Tar, in_data, in_w, is_h_even, 0, i * in_w, FALSE, L, mode),
                 mode)

\* 4:1:0, the operation at a pixel of a row with h_flag: the switch on
\* w_flag; rows 2 and 3 add whatever w_flag is.
op410(h_flag, w_flag) ==
    CASE h_flag = 1 -> IF w_flag = 1 THEN "=" ELSE "+="
      [] h_flag \in {2, 3} -> "+="
      [] h_flag = 4 -> IF w_flag = 4 THEN "emit" ELSE "+="

\* 4:1:0, w_flag after the pixel: case 4 sets it to 0, the loop adds one;
\* the loops of the rows 2 and 3 leave it alone.
w_flag_next(h_flag, w_flag) ==
    IF h_flag \in {2, 3} THEN w_flag
    ELSE ToU8((IF w_flag = 4 THEN 0 ELSE w_flag) + 1)

\* 4:1:0, h_flag after the row: case 4 sets it to 0, the loop adds one.
h_flag_next(h_flag) == ToU8((IF h_flag = 4 THEN 0 ELSE h_flag) + 1)

\* 4:1:0, the inner loops: for (j = 0; j < in_w; ++j, ++index[, ++w_flag])
RECURSIVE Row410(_, _, _, _, _, _, _, _, _)
Row410(Tar, in_data, in_w, h_flag, j, index, w_flag, L, mode) ==
    IF j >= in_w \/ L.st.crashed THEN L
    ELSE Row410(Tar, in_data, in_w, h_flag, j + 1, index + 1,
                w_flag_next(h_flag, w_flag),
                AccStep(Tar, in_data, index, Shr(j, 2),
                        op410(h_flag, w_flag), L, mode),
                mode)

\* 4:1:0, the outer loop: for (i = 0, index = 0; i < in_h; ++i, ++h_flag);
\* an h_flag outside 1..4 matches no case and the row is skipped.
RECURSIVE Rows410(_, _, _, _, _, _, _, _)
Rows410(Tar, in_data, in_w, in_h, i, h_flag, L, mode) ==
    IF i >= in_h \/ L.st.crashed THEN L
    ELSE Rows410(Tar, in_data, in_w, in_h, i + 1, h_flag_next(h_flag),
                 IF h_flag \in 1 .. 4
                 THEN Row410(Tar, in_data, in_w, h_flag, 0, i * in_w, 1, L, mode)
                 ELSE L,
                 mode)

Packed422Tags == {"yuv_YUY2", "yuv_YVYU", "yuv_UYVY", "yuv_VYUY"}
Tags420 == {"yuv_YV12", "yuv_YU12", "yuv_NV12", "yuv_NV21"}
Tags410 == {"yuv_YUV9", "yuv_YVU9"}

\* The arguments that only the accumulating writers look at.
AccTags == Tags420 \cup Tags410

\* detail_transform_::transform_to<Tar>(in_data, in_w, in_h, ot_data) with
\* ot_data of n bytes: the writer's effects. ok_u, ok_v: the accumulators'
\* allocations succeed; g, mode: what undefined accesses meet.
transform_to(Tar, in_data, in_w, in_h, n, ok_u, ok_v, g, mode) ==
    LET s == in_w * in_h
        st == WriterStart(n)
        p_uv == fill(Tar, in_w, in_h)
        L(shift) == [st |-> st, p_uv |-> p_uv,
                     u_tmp |-> acc_new(Shr(in_w, shift), ok_u, g, in_w),
                     v_tmp |-> acc_new(Shr(in_w, shift), ok_v, g, in_w)]
    IN CASE Tar \in Packed422Tags -> Packed422(Tar, in_data, s, 0, st)
         [] Tar = "yuv_Y41P" -> Y41P(in_data, s, 0, st)
         [] Tar \in {"yuv_NV24", "yuv_NV42"} -> Planar444(Tar, in_data, s, 0, p_uv, st)
         [] Tar = "yuv_422P" -> PlanarH(Tar, 2, in_data, s, 0, p_uv, st)
         [] Tar = "yuv_411P" -> PlanarH(Tar, 4, in_data, s, 0, p_uv, st)
         [] Tar \in Tags420 ->
                Rows420(Tar, in_data, in_w, in_h, 0, FALSE, L(1), mode).st
         [] Tar \in Tags410 ->
                Rows410(Tar, in_data, in_w, in_h, 0, 1, L(2), mode).st

----------------------------------------------------------------------------
(* SpecWriter: one call of impl_::transform as the writer sees it. The     *)
(* call enters with a destination of calculate_size<Ot> bytes, which runs  *)
(* the assertion of size<Ot> on the pixel count; then transform_to<Ot>     *)
(* runs on a canonical array of in_w * in_h pixels.                        *)

\* The colours of the images, as (R, G, B): the two of the 4:2:2 example
\* and one whose U and V are odd.
Palette == <<(<<255, 0, 0>>), (<<0, 255, 0>>), (<<20, 0, 0>>)>>
Colours == {Palette[c] : c \in DOMAIN Palette}

\* Two blocks of 4 x 4 pixels, side by side and one above the other.
ExtraDims == {<<8, 4>>, <<4, 8>>}

WriterDims ==
    {d \in (1 .. MaxPixels) \X (1 .. MaxPixels) : d[1] * d[2] <= MaxPixels}
        \cup ExtraDims

\* An image of s pixels in row-major order: colour bg, but colour c at
\* the positions of P.
Image(s, bg, c, P) ==
    [i \in 1 .. s |-> IF i \in P THEN rgb_t(c[1], c[2], c[3])
                      ELSE rgb_t(bg[1], bg[2], bg[3])]

\* An image whose neighbouring pixels all differ: the palette in turn.
Striped(s, off) ==
    [i \in 1 .. s |->
        LET c == Palette[((i + off) % Len(Palette)) + 1] IN rgb_t(c[1], c[2], c[3])]

SolidImages(s) == {Image(s, bg, bg, {}) : bg \in Colours}

\* The solid images, those with one pixel of another colour, the striped.
Images(s) ==
    SolidImages(s)
        \cup {Image(s, bg, c, {i}) : bg \in Colours, c \in Colours, i \in 1 .. s}
        \cup {Striped(s, off) : off \in 1 .. Len(Palette)}

InitWriter ==
    /\ call = NoCall
    /\ blocks = NoBlocks
    /\ heap = NoHeap
    /\ last = NoLast
    /\ wr = NoWr
    /\ tr = NoTr

\* impl_::transform up to its assertion on the destination's size.
EnterTransform ==
    /\ wr.op = "none"
    /\ \E Ot \in YuvFormats, d \in WriterDims :
         /\ size_assert(Ot, d[1], d[2])
         /\ wr' = [op |-> "transform", Tar |-> Ot, in_w |-> d[1], in_h |-> d[2],
                   n |-> calculate_size(Ot, d[1], d[2])]
    /\ UNCHANGED notWriter

\* The writer's record once it has run.
Written(w, in_data, ok_u, ok_v, out) ==
    [op |-> "transform_to", Tar |-> w.Tar, in_w |-> w.in_w, in_h |-> w.in_h,
     n |-> w.n, in_data |-> in_data, ok_u |-> ok_u, ok_v |-> ok_v, out |-> out]

\* transform_to<Ot>(rgb_data, in_w, in_h, ot_data). A run that meets no
\* undefined access has one outcome; the others have those of UBOutcomes
\* and Garbage. Failed accumulator allocations are run on solid images.
TransformTo ==
    /\ wr.op = "transform"
    /\ \E ok_u \in IF wr.Tar \in AccTags THEN BOOLEAN ELSE {TRUE},
          ok_v \in IF wr.Tar \in AccTags THEN BOOLEAN ELSE {TRUE} :
         \E in_data \in IF ok_u /\ ok_v THEN Images(wr.in_w * wr.in_h)
                        ELSE SolidImages(wr.in_w * wr.in_h) :
            LET run(g, mode) == transform_to(wr.Tar, in_data, wr.in_w, wr.in_h,
                                             wr.n, ok_u, ok_v, g, mode)
                r == run(0, "crash")
            IN IF ~r.acc_bad /\ ~r.acc_uninit
               THEN wr' = Written(wr, in_data, ok_u, ok_v, r)
               ELSE \E g \in Garbage, mode \in UBOutcomes :
                       wr' = Written(wr, in_data, ok_u, ok_v, run(g, mode))
    /\ UNCHANGED notWriter

NextWriter == EnterTransform \/ TransformTo

SpecWriter == InitWriter /\ [][NextWriter]_vars

----------------------------------------------------------------------------
(* SpecTransform: one call of transform<In, Ot>(in_data, in_w, in_h,       *)
(* ot_data), a step per statement of impl_::transform and of               *)
(* rgb_formatter<In>::to_888. The heap holds the caller's source region    *)
(* and the caller's destination region, then what the call allocates.      *)
(*                                                                         *)
(* tr.pc is the statement to run next; tr.ret is the local of to_888,      *)
(* tr.rv the block to_888 returns, tr.rgb_data the local of transform;     *)
(* tr.stores is the set of pointers stored through, tr.canon the pointer   *)
(* and count the writer was given, tr.copies the number of returned        *)
(* blocks whose copy was not elided.                                       *)

SrcRegion == 1
DstRegion == 2
TrHeap == <<Region("caller"), Region("caller")>>

\* Returning a block by value: the copy from the returned temporary may be
\* elided; if it is not, the same-type construction runs and the temporary
\* is destroyed. Returns <<block, heap>>.
return_value(b, h, elide) ==
    IF elide THEN <<b, h>>
    ELSE LET c == construct_from(b.T, b) IN <<c[1], destructor(c[2], h)>>

\* create_buffer<S>(in_w, in_h): return scope_block<byte_t>(calculate_size<S>).
create_buffer(S, in_w, in_h, h, ok, elide) ==
    LET b == reset_count(EmptyBlock("byte_t"), h, calculate_size(S, in_w, in_h), ok)
    IN return_value(b[1], b[2], elide)

\* detail_rgb_format_::impl_<S>::to_888(in_rgb, in_count, ot_rgb): whether
\* its assertions hold, the canonical pixels it stores and the source bytes
\* it reads. A loop "for (i = 0; i < in_count; i += k)" runs
\* ceil(in_count / k) times; the rgb_444 loop advances ot_rgb once a turn
\* and stores at two elements.
rgb_format(S, in_rgb, in_count, ot_rgb) ==
    LET turns(k) == (in_count + k - 1) \div k IN
    CASE S = "rgb_888" ->
            [assert_ok |-> in_rgb = ot_rgb, pixels |-> 0, reads |-> 0]
      [] S \in {"rgb_565", "rgb_555"} ->
            [assert_ok |-> in_rgb # ot_rgb /\ in_count % 2 = 0,
             pixels |-> turns(2), reads |-> 2 * turns(2)]
      [] S = "rgb_444" ->
            [assert_ok |-> in_rgb # ot_rgb /\ in_count % 3 = 0,
             pixels |-> IF turns(3) = 0 THEN 0 ELSE turns(3) + 1,
             reads |-> 3 * turns(3)]
      [] S = "rgb_888X" ->
            [assert_ok |-> in_rgb # ot_rgb /\ in_count % 4 = 0,
             pixels |-> turns(4), reads |-> 4 * turns(4)]

Edges == 1 .. MaxEdge

InitTransform ==
    /\ call = NoCall
    /\ blocks = NoBlocks
    /\ heap = TrHeap
    /\ last = NoLast
    /\ wr = NoWr
    /\ tr = NoTr

\* transform<In, Ot> and impl_::transform up to the assertion on the size
\* of ot_data, a block of calculate_size<Ot> bytes the caller owns.
Transform ==
    /\ tr.pc = "none"
    /\ \E In \in RgbFormats, Ot \in YuvFormats, in_w \in Edges, in_h \in Edges :
         /\ size_assert(Ot, in_w, in_h)
         /\ tr' = [pc |-> "to_888", In |-> In, Ot |-> Ot,
                   in_w |-> in_w, in_h |-> in_h, in_data |-> SrcRegion,
                   ot_data |-> [live |-> TRUE, T |-> "byte_t", block_ |-> DstRegion,
                                count_ |-> calculate_size(Ot, in_w, in_h),
                                trust_ |-> TRUE],
                   ret |-> NoBlock, rv |-> NoBlock, rgb_data |-> NoBlock,
                   norm |-> [assert_ok |-> TRUE, pixels |-> 0, reads |-> 0],
                   stores |-> {}, canon |-> [ptr |-> NULL, count |-> 0],
                   copies |-> 0]
    /\ UNCHANGED <<heap, notTransform>>

\* to_888, the declaration of ret: for rgb_888 a block over in_rgb, else a
\* block constructed from the value of create_buffer<rgb_888>, which is
\* destroyed at the end of the declaration.
To888Ret ==
    /\ tr.pc = "to_888"
    /\ IF tr.In = "rgb_888"
       THEN LET r == reset_wrap(EmptyBlock("rgb_t"), heap, tr.in_data,
                                tr.in_w * tr.in_h)
            IN /\ tr' = [tr EXCEPT !.pc = "rgb_format", !.ret = r[1]]
               /\ heap' = r[2]
       ELSE \E ok \in BOOLEAN, elide \in BOOLEAN :
            LET buf == create_buffer("rgb_888", tr.in_w, tr.in_h, heap, ok, elide)
                c == construct_from("rgb_t", buf[1])
            IN /\ tr' = [tr EXCEPT !.pc = "rgb_format", !.ret = c[1],
                                   !.copies = IF elide THEN @ ELSE @ + 1]
               /\ heap' = destructor(c[2], buf[2])
    /\ UNCHANGED notTransform

\* to_888, the call of rgb_format<In>. A failed assertion ends a debug
\* build and lets the others continue; a store through a null pointer is
\* undefined, it may end the run or not.
RgbFormat ==
    /\ tr.pc = "rgb_format"
    /\ LET in_count == IF tr.In = "rgb_888" THEN block_size(tr.ret)
                       ELSE calculate_size(tr.In, tr.in_w, tr.in_h)
           f == rgb_format(tr.In, tr.in_data, in_count, tr.ret.block_)
           stored == IF f.pixels > 0 THEN {tr.ret.block_} ELSE {}
       IN \E pc \in {"return"} \cup (IF f.assert_ok THEN {} ELSE {"abort"})
                                \cup (IF NULL \in stored THEN {"crash"} ELSE {}) :
             tr' = [tr EXCEPT !.pc = pc, !.norm = f,
                              !.stores = IF pc = "abort" THEN @ ELSE @ \cup stored]
    /\ UNCHANGED <<heap, notTransform>>

\* to_888, return ret: a byte block is constructed from ret and returned
\* by value, then ret is destroyed.
To888Return ==
    /\ tr.pc = "return"
    /\ \E elide \in BOOLEAN :
         LET c == construct_from("byte_t", tr.ret)
             v == return_value(c[1], heap, elide)
         IN /\ tr' = [tr EXCEPT !.pc = "rgb_data", !.rv = v[1], !.ret = NoBlock,
                                !.copies = IF elide THEN @ ELSE @ + 1]
            /\ heap' = destructor(c[2], v[2])
    /\ UNCHANGED notTransform

\* impl_::transform, the declaration of rgb_data from the value of to_888,
\* which is destroyed at the end of the declaration.
RgbData ==
    /\ tr.pc = "rgb_data"
    /\ LET c == construct_from("rgb_t", tr.rv)
       IN /\ tr' = [tr EXCEPT !.pc = "transform_to", !.rgb_data = c[1],
                              !.rv = NoBlock]
          /\ heap' = destructor(c[2], heap)
    /\ UNCHANGED notTransform

\* impl_::transform, the call of transform_to<Ot>(rgb_data, in_w, in_h,
\* ot_data): the writer reads through rgb_data and stores through ot_data.
\* Reading through a null pointer is undefined, it may end the run or not.
TransformToCall ==
    /\ tr.pc = "transform_to"
    /\ \E pc \in {"destroy"} \cup (IF tr.rgb_data.block_ = NULL THEN {"crash"} ELSE {}) :
         tr' = [tr EXCEPT !.pc = pc,
                          !.canon = [ptr |-> tr.rgb_data.block_,
                                     count |-> tr.rgb_data.count_],
                          !.stores = IF pc = "crash" THEN @
                                     ELSE @ \cup {tr.ot_data.block_}]
    /\ UNCHANGED <<heap, notTransform>>

\* impl_::transform returns: rgb_data is destroyed.
TransformReturn ==
    /\ tr.pc = "destroy"
    /\ tr' = [tr EXCEPT !.pc = "done", !.rgb_data = NoBlock]
    /\ heap' = destructor(tr.rgb_data, heap)
    /\ UNCHANGED notTransform

NextTransform ==
    \/ Transform
    \/ To888Ret
    \/ RgbFormat
    \/ To888Return
    \/ RgbData
    \/ TransformToCall
    \/ TransformReturn

SpecTransform == InitTransform /\ [][NextTransform]_vars

----------------------------------------------------------------------------
(* SpecFormat: one call of rgb_format<S>(in_rgb, in_count, ot_rgb) as      *)
(* rgb_formatter<S>::to_888 makes it: in_rgb holds in_count =              *)
(* calculate_size<S>(in_w, in_h) bytes, ot_rgb in_w * in_h canonical       *)
(* pixels. The pixels are kept in the order they are stored, so pixel k    *)
(* of .stored went to ot_rgb[k - 1].                                       *)

\* x & y on naturals.
RECURSIVE BitAnd(_, _)
BitAnd(x, y) ==
    IF x = 0 \/ y = 0 THEN 0
    ELSE (x % 2) * (y % 2) + 2 * BitAnd(x \div 2, y \div 2)

\* in_rgb[off]; a byte beyond the in_count bytes of in_rgb reads as g.
ByteAt(in_rgb, off, g) == IF off < Len(in_rgb) THEN in_rgb[off + 1] ELSE g

\* A uint16_t read with its second byte as the low one.
WordAt_swapped(in_rgb, off, g) ==
    256 * ByteAt(in_rgb, off, g) + ByteAt(in_rgb, off + 1, g)

\* *cur_pixel, a uint16_t read at byte offset off of in_rgb: the object
\* representation of the host, which is little-endian on the targets the
\* library is built for.
WordAt(in_rgb, off, g) ==
    ByteAt(in_rgb, off, g) + 256 * ByteAt(in_rgb, off + 1, g)

\* x SHIFT, for a macro argument SHIFT such as ">> 8" or "<< 3".
Shifted(x, SHIFT) == IF SHIFT[1] = ">>" THEN Shr(x, SHIFT[2]) ELSE Shl(x, SHIFT[2])

\* R2Y_BMP_16_TRANSFORM_HELPER_: "for (i = 0; i < in_count; i += 2)" runs
\* ceil(in_count / 2) times, each turn reads one word and stores one pixel.
\* A SHIFT_ argument is the operator and the amount, as in <<">>", 8>>.
R2Y_BMP_16_TRANSFORM_HELPER_(in_rgb, in_count, g, MASK_R, MASK_G, MASK_B, SHIFT_R, SHIFT_G, SHIFT_B) ==
    LET turns == (in_count + 1) \div 2
        px(k) == LET cur_pixel == WordAt(in_rgb, 2 * (k - 1), g)
                 IN rgb_t(ToU8(Shifted(BitAnd(cur_pixel, MASK_R), SHIFT_R)),
                          ToU8(Shifted(BitAnd(cur_pixel, MASK_G), SHIFT_G)),
                          ToU8(Shifted(BitAnd(cur_pixel, MASK_B), SHIFT_B)))
    IN [stored |-> [k \in 1 .. turns |-> px(k)], reads |-> 2 * turns]

\* impl_<rgb_565>::to_888: masks 0xF800, 0x07E0, 0x001F.
to_888_565(in_rgb, in_count, g) ==
    R2Y_BMP_16_TRANSFORM_HELPER_(in_rgb, in_count, g, 63488, 2016, 31,
                                 <<">>", 8>>, <<">>", 3>>, <<"<<", 3>>)

\* impl_<rgb_555>::to_888: masks 0x7C00, 0x03E0, 0x001F.
to_888_555(in_rgb, in_count, g) ==
    R2Y_BMP_16_TRANSFORM_HELPER_(in_rgb, in_count, g, 31744, 992, 31,
                                 <<">>", 7>>, <<">>", 2>>, <<"<<", 3>>)

\* impl_<rgb_444>::to_888: "for (i = 0; i < in_count; i += 3)" runs
\* ceil(in_count / 3) times, each turn reads three bytes and stores two
\* pixels, at ot_rgb and, after the one ++ot_rgb of the body, at the next
\* element. ot_rgb so advances by one element a turn: the first pixel of
\* turn k + 1 is stored over the second pixel of turn k.
to_888_444(in_rgb, in_count, g) ==
    LET turns == (in_count + 2) \div 3
        at(k, j) == ByteAt(in_rgb, 3 * (k - 1) + j, g)
        px0(k) == rgb_t(ToU8(Shl(BitAnd(at(k, 1), 15), 4)),
                        ToU8(BitAnd(at(k, 0), 240)),
                        ToU8(Shl(BitAnd(at(k, 0), 15), 4)))
        px1(k) == rgb_t(ToU8(BitAnd(at(k, 2), 240)),
                        ToU8(Shl(BitAnd(at(k, 2), 15), 4)),
                        ToU8(BitAnd(at(k, 1), 240)))
    IN [stored |-> IF turns = 0 THEN << >>
                   ELSE [i \in 1 .. turns + 1 |->
                           IF i <= turns THEN px0(i) ELSE px1(turns)],
        reads |-> 3 * turns]

\* impl_<rgb_888X>::to_888: "for (i = 0; i < in_count; i += 4)", each turn
\* copies the first three bytes of four as one rgb_t (b_, g_, r_).
to_888_888X(in_rgb, in_count, g) ==
    LET turns == (in_count + 3) \div 4
        at(k, j) == ByteAt(in_rgb, 4 * (k - 1) + j, g)
    IN [stored |-> [k \in 1 .. turns |-> <<at(k, 0), at(k, 1), at(k, 2)>>],
        reads |-> 4 * turns]

\* The pixels rgb_format<S> stores and the number of bytes it reads.
to_888(S, in_rgb, in_count, g) ==
    CASE S = "rgb_565" -> to_888_565(in_rgb, in_count, g)
      [] S = "rgb_555" -> to_888_555(in_rgb, in_count, g)
      [] S = "rgb_444" -> to_888_444(in_rgb, in_count, g)
      [] S = "rgb_888X" -> to_888_888X(in_rgb, in_count, g)

Bytes == 0 .. 255

\* Source byte arrays: for one 16-bit pixel every array of two bytes, else
\* the arrays that step from any first byte by a fixed amount.
ByteSteps == {0, 1, 17}
Ramp(n, a, d) == [i \in 1 .. n |-> (a + (i - 1) * d) % 256]
Sources(S, n) ==
    IF S \in {"rgb_565", "rgb_555"} /\ n = 2 THEN {<<lo, hi>> : lo \in Bytes, hi \in Bytes}
    ELSE {Ramp(n, a, d) : a \in Bytes, d \in ByteSteps}

\* What a read beyond in_rgb can give.
StrayBytes == {0, 255}

\* The record of one call. A failed assertion ends a debug build before
\* the loop (ran = FALSE) and is compiled out under NDEBUG.
Formatted(S, in_w, in_h, in_rgb, g, ran) ==
    LET in_count == calculate_size(S, in_w, in_h)
        a == rgb_format(S, SrcRegion, in_count, DstRegion)
        f == to_888(S, in_rgb, in_count, g)
    IN [op |-> "rgb_format", tag |-> S, w |-> in_w, h |-> in_h,
        in_rgb |-> in_rgb, in_count |-> in_count,
        assert_ok |-> a.assert_ok, ran |-> ran,
        stored |-> IF ran THEN f.stored ELSE << >>,
        reads |-> IF ran THEN f.reads ELSE 0]

\* rgb_format<S> on a source of in_w * in_h pixels.
RgbFormatCall(S) ==
    /\ call.op = "none"
    /\ \E in_w \in Edges, in_h \in Edges :
         LET in_count == calculate_size(S, in_w, in_h)
             a == rgb_format(S, SrcRegion, in_count, DstRegion)
         IN \E in_rgb \in Sources(S, in_count) :
            \E g \in IF a.reads > in_count THEN StrayBytes ELSE {0} :
            \E ran \in IF a.assert_ok THEN {TRUE} ELSE BOOLEAN :
               call' = Formatted(S, in_w, in_h, in_rgb, g, ran)
    /\ UNCHANGED notPure

Format565 == RgbFormatCall("rgb_565")
Format555 == RgbFormatCall("rgb_555")
Format444 == RgbFormatCall("rgb_444")
Format888X == RgbFormatCall("rgb_888X")

NextFormat == Format565 \/ Format555 \/ Format444 \/ Format888X

SpecFormat == InitPure /\ [][NextFormat]_vars

----------------------------------------------------------------------------
(* C8: an rgb_888 source is used in place *)

\* The blocks of the call that hold a pointer.
C8_Holders == {b \in {tr.ret, tr.rv, tr.rgb_data} : b.live /\ b.block_ # NULL}

\* C8: with an rgb_888 source the canonical array is the caller's source
\* buffer itself: nothing is allocated, nothing is stored through the
\* source pointer, every block over it (ret, the returned byte block,
\* rgb_data) is borrowed and spans in_w * in_h pixels, the writer is given
\* the source pointer with in_w * in_h elements, and the source buffer is
\* never freed.
C8_SourceUsedInPlace ==
    (tr.pc # "none" /\ tr.In = "rgb_888") =>
        /\ Len(heap) = Len(TrHeap)
        /\ heap[tr.in_data].frees = 0
        /\ tr.in_data \notin tr.stores
        /\ \A b \in C8_Holders :
              /\ b.block_ = tr.in_data
              /\ ~b.trust_
              /\ block_size(b) = tr.in_w * tr.in_h * sizeof_rgb_t
        /\ tr.pc \in {"rgb_format", "return"} =>
              /\ tr.ret.T = "rgb_t" /\ tr.ret.block_ = tr.in_data
              /\ tr.ret.count_ = tr.in_w * tr.in_h
        /\ tr.pc = "rgb_data" =>
              /\ tr.rv.T = "byte_t" /\ tr.rv.block_ = tr.in_data
        /\ tr.pc \in {"transform_to", "destroy"} =>
              /\ tr.rgb_data.T = "rgb_t" /\ tr.rgb_data.block_ = tr.in_data
              /\ tr.rgb_data.count_ = tr.in_w * tr.in_h
        /\ tr.pc \in {"destroy", "done"} =>
              tr.canon = [ptr |-> tr.in_data, count |-> tr.in_w * tr.in_h]
        /\ tr.pc \notin {"abort", "crash"}

\* A 4 x 2 rgb_888 image has been converted and the call has returned.
C8_Witness ==
    /\ tr.pc = "done"
    /\ tr.In = "rgb_888"
    /\ tr.in_w = 4 /\ tr.in_h = 2
    /\ tr.canon = [ptr |-> SrcRegion, count |-> 8]
    /\ tr.stores = {DstRegion}
    /\ heap[SrcRegion].frees = 0

----------------------------------------------------------------------------
(* C9: solid-colour images through the subsampling writers *)

\* The subsampled targets: 4:2:2, 4:2:0, 4:1:1 and 4:1:0.
C9_Subsampled == YuvFormats \ {"yuv_NV24", "yuv_NV42"}

\* The channel ("U", "V" or "Y") the layout of Tar puts at offset off of a
\* destination for s pixels.
C9_Channel(Tar, s, off) ==
    CASE Tar = "yuv_YUY2" -> <<"Y", "U", "Y", "V">>[(off % 4) + 1]
      [] Tar = "yuv_YVYU" -> <<"Y", "V", "Y", "U">>[(off % 4) + 1]
      [] Tar = "yuv_UYVY" -> <<"U", "Y", "V", "Y">>[(off % 4) + 1]
      [] Tar = "yuv_VYUY" -> <<"V", "Y", "U", "Y">>[(off % 4) + 1]
      [] Tar = "yuv_Y41P" ->
            <<"U", "Y", "V", "Y", "U", "Y", "V", "Y", "Y", "Y", "Y", "Y">>[(off % 12) + 1]
      [] off < s -> "Y"
      [] Tar \in {"yuv_NV12"} -> IF (off - s) % 2 = 0 THEN "U" ELSE "V"
      [] Tar \in {"yuv_NV21"} -> IF (off - s) % 2 = 0 THEN "V" ELSE "U"
      [] Tar = "yuv_422P" -> IF off < s + (s \div 2) THEN "U" ELSE "V"
      [] Tar \in {"yuv_YU12", "yuv_411P"} -> IF off < s + (s \div 4) THEN "U" ELSE "V"
      [] Tar = "yuv_YV12" -> IF off < s + (s \div 4) THEN "V" ELSE "U"
      [] Tar = "yuv_YUV9" -> IF off < s + (s \div 16) THEN "U" ELSE "V"
      [] Tar = "yuv_YVU9" -> IF off < s + (s \div 16) THEN "V" ELSE "U"

\* A solid-colour image went through a subsampling writer whose
\* accumulators, if it has any, were allocated.
C9_SolidWritten ==
    /\ wr.op = "transform_to"
    /\ wr.Tar \in C9_Subsampled
    /\ \A i \in DOMAIN wr.in_data : wr.in_data[i] = wr.in_data[1]
    /\ wr.ok_u /\ wr.ok_v

\* C9: for a solid-colour image and every subsampled target, with any width
\* and height whose pixel count passes the target's divisibility
\* precondition, every chroma byte of the destination equals the U (resp.
\* V) value of a single pixel.
C9_Original ==
    C9_SolidWritten =>
        \A off \in 0 .. wr.n - 1 :
            LET ch == C9_Channel(wr.Tar, wr.in_w * wr.in_h, off) IN
            /\ ch = "U" => wr.out.dest[off] = pixel_convert("plane_U", wr.in_data[1])
            /\ ch = "V" => wr.out.dest[off] = pixel_convert("plane_V", wr.in_data[1])

----------------------------------------------------------------------------
(* C10: the horizontally subsampling writers *)

\* The group size n of a horizontally subsampled target.
C10_n(Tar) ==
    CASE Tar \in {"yuv_YUY2", "yuv_YVYU", "yuv_UYVY", "yuv_VYUY", "yuv_422P"} -> 2
      [] Tar \in {"yuv_Y41P", "yuv_411P"} -> 4

C10_Targets == {"yuv_YUY2", "yuv_YVYU", "yuv_UYVY", "yuv_VYUY", "yuv_422P",
                "yuv_Y41P", "yuv_411P"}

\* The destination offset of the Y output of pixel i (from 0).
C10_YAt(Tar, s, i) ==
    CASE Tar \in {"yuv_YUY2", "yuv_YVYU"} -> 2 * i
      [] Tar \in {"yuv_UYVY", "yuv_VYUY"} -> 2 * i + 1
      [] Tar = "yuv_Y41P" ->
            12 * (i \div 8) + <<1, 3, 5, 7, 8, 9, 10, 11>>[(i % 8) + 1]
      [] Tar \in {"yuv_422P", "yuv_411P"} -> i

\* The destination offsets of the U and the V output of group k (from 0).
C10_UAt(Tar, s, k) ==
    CASE Tar = "yuv_YUY2" -> 4 * k + 1
      [] Tar = "yuv_YVYU" -> 4 * k + 3
      [] Tar = "yuv_UYVY" -> 4 * k
      [] Tar = "yuv_VYUY" -> 4 * k + 2
      [] Tar = "yuv_Y41P" -> 12 * (k \div 2) + 4 * (k % 2)
      [] Tar \in {"yuv_422P", "yuv_411P"} -> s + k

C10_VAt(Tar, s, k) ==
    CASE Tar = "yuv_YUY2" -> 4 * k + 3
      [] Tar = "yuv_YVYU" -> 4 * k + 1
      [] Tar = "yuv_UYVY" -> 4 * k + 2
      [] Tar = "yuv_VYUY" -> 4 * k
      [] Tar = "yuv_Y41P" -> 12 * (k \div 2) + 4 * (k % 2) + 2
      [] Tar = "yuv_422P" -> s + (s \div 2) + k
      [] Tar = "yuv_411P" -> s + (s \div 4) + k

\* The sum of the individually converted plane P of the pixels
\* first .. first + n - 1 (from 0) of the image.
RECURSIVE C10_Sum(_, _, _, _)
C10_Sum(P, in_data, first, n) ==
    IF n = 0 THEN 0
    ELSE pixel_convert(P, in_data[first + n]) + C10_Sum(P, in_data, first, n - 1)

\* C10: a horizontally subsampling writer takes the pixels in row-major
\* order in consecutive groups of n; every pixel's Y output is its own
\* converted Y, and the group's one U and one V output are the floor of
\* the sum of the group's n converted U (resp. V) divided by n.
C10_GroupFloorAverage ==
    (wr.op = "transform_to" /\ wr.Tar \in C10_Targets) =>
        LET s == wr.in_w * wr.in_h
            n == C10_n(wr.Tar)
        IN /\ \A i \in 0 .. s - 1 :
                wr.out.dest[C10_YAt(wr.Tar, s, i)]
                    = pixel_convert("plane_Y", wr.in_data[i + 1])
           /\ \A k \in 0 .. (s \div n) - 1 :
                /\ wr.out.dest[C10_UAt(wr.Tar, s, k)]
                     = C10_Sum("plane_U", wr.in_data, k * n, n) \div n
                /\ wr.out.dest[C10_VAt(wr.Tar, s, k)]
                     = C10_Sum("plane_V", wr.in_data, k * n, n) \div n

\* The 2x1 image (255,0,0),(0,255,0) written as YUY2: Y0 = 82, Y1 = 144,
\* U = (90 + 54) >> 1, V = (240 + 34) >> 1.
C10_Witness ==
    /\ wr.op = "transform_to"
    /\ wr.Tar = "yuv_YUY2"
    /\ wr.in_w = 2 /\ wr.in_h = 1
    /\ wr.in_data = <<rgb_t(255, 0, 0), rgb_t(0, 255, 0)>>
    /\ wr.out.dest = (0 :> 82) @@ (1 :> 72) @@ (2 :> 144) @@ (3 :> 137)

----------------------------------------------------------------------------
(* C11: the byte layout of every target *)

\* What the layout of Tar prescribes for offset off of a destination for s
\* pixels: <<"Y", i>> the luma of pixel i, <<"U", k>> or <<"V", k>> the
\* k-th chroma sample (all from 0).
C11_Packed4(order, off) ==
    LET r == off \div 4
        f == order[(off % 4) + 1]
    IN CASE f = "Y0" -> <<"Y", 2 * r>>
         [] f = "Y1" -> <<"Y", 2 * r + 1>>
         [] f = "U" -> <<"U", r>>
         [] f = "V" -> <<"V", r>>

C11_Y41P(off) ==
    LET r == off \div 12
        f == <<(<<"U", 0>>), (<<"Y", 0>>), (<<"V", 0>>), (<<"Y", 1>>),
               (<<"U", 1>>), (<<"Y", 2>>), (<<"V", 1>>), (<<"Y", 3>>),
               (<<"Y", 4>>), (<<"Y", 5>>), (<<"Y", 6>>), (<<"Y", 7>>)>>[(off % 12) + 1]
    IN IF f[1] = "Y" THEN <<"Y", 8 * r + f[2]>> ELSE <<f[1], 2 * r + f[2]>>

\* Two planes after the Y plane: first of plane_len bytes, then second.
C11_TwoPlanes(first, second, s, plane_len, off) ==
    IF off < s + plane_len THEN <<first, off - s>>
    ELSE <<second, off - s - plane_len>>

\* One combined plane after the Y plane, bytes first then second.
C11_Combined(first, second, s, off) ==
    <<IF (off - s) % 2 = 0 THEN first ELSE second, (off - s) \div 2>>

C11_Slot(Tar, s, off) ==
    CASE Tar = "yuv_YUY2" -> C11_Packed4(<<"Y0", "U", "Y1", "V">>, off)
      [] Tar = "yuv_YVYU" -> C11_Packed4(<<"Y0", "V", "Y1", "U">>, off)
      [] Tar = "yuv_UYVY" -> C11_Packed4(<<"U", "Y0", "V", "Y1">>, off)
      [] Tar = "yuv_VYUY" -> C11_Packed4(<<"V", "Y0", "U", "Y1">>, off)
      [] Tar = "yuv_Y41P" -> C11_Y41P(off)
      [] off < s -> <<"Y", off>>
      [] Tar = "yuv_422P" -> C11_TwoPlanes("U", "V", s, s \div 2, off)
      [] Tar \in {"yuv_YU12", "yuv_411P"} -> C11_TwoPlanes("U", "V", s, s \div 4, off)
      [] Tar = "yuv_YV12" -> C11_TwoPlanes("V", "U", s, s \div 4, off)
      [] Tar = "yuv_YUV9" -> C11_TwoPlanes("U", "V", s, s \div 16, off)
      [] Tar = "yuv_YVU9" -> C11_TwoPlanes("V", "U", s, s \div 16, off)
      [] Tar \in {"yuv_NV24", "yuv_NV12"} -> C11_Combined("U", "V", s, off)
      [] Tar \in {"yuv_NV42", "yuv_NV21"} -> C11_Combined("V", "U", s, off)

\* The pixels (from 0) whose chroma the k-th chroma sample of Tar averages:
\* one pixel for 4:4:4, n consecutive pixels for 4:2:2 and 4:1:1, the k-th
\* block of n x n pixels, blocks counted in row-major order, for 4:2:0 and
\* 4:1:0. Empty where the image is narrower than a block.
C11_Block(n, in_w, k) ==
    IF in_w \div n = 0 THEN {}
    ELSE LET r == k \div (in_w \div n)
             c == k % (in_w \div n)
         IN {(r * n + dy) * in_w + c * n + dx : dy \in 0 .. n - 1, dx \in 0 .. n - 1}

C11_Members(Tar, in_w, k) ==
    CASE Tar \in {"yuv_NV24", "yuv_NV42"} -> {k}
      [] Tar \in Packed422Tags \cup {"yuv_422P"} -> {2 * k, 2 * k + 1}
      [] Tar \in {"yuv_Y41P", "yuv_411P"} -> 4 * k .. 4 * k + 3
      [] Tar \in Tags420 -> C11_Block(2, in_w, k)
      [] Tar \in Tags410 -> C11_Block(4, in_w, k)

RECURSIVE C11_SumOver(_, _, _)
C11_SumOver(P, in_data, S) ==
    IF S = {} THEN 0
    ELSE LET x == CHOOSE x \in S : TRUE
         IN pixel_convert(P, in_data[x + 1]) + C11_SumOver(P, in_data, S \ {x})

\* The byte the layout prescribes at offset off for the image in_data;
\* Unwritten where the layout's sample has no pixels in the image.
C11_Byte(Tar, in_w, in_data, off) ==
    LET slot == C11_Slot(Tar, Len(in_data), off)
        M == C11_Members(Tar, in_w, slot[2])
    IN IF slot[1] = "Y" THEN pixel_convert("plane_Y", in_data[slot[2] + 1])
       ELSE IF M = {} \/ \E x \in M : x >= Len(in_data) THEN Unwritten
       ELSE C11_SumOver(IF slot[1] = "U" THEN "plane_U" ELSE "plane_V", in_data, M)
                \div Cardinality(M)

\* C11: after a conversion every destination byte position holds the
\* channel the layout of its tag prescribes: the packed groups in their
\* field order, the Y plane at 0, the U and V planes (or the combined
\* plane) at their offsets behind it.
C11_Original ==
    (wr.op = "transform_to" /\ wr.ok_u /\ wr.ok_v) =>
        \A off \in 0 .. wr.n - 1 :
            wr.out.dest[off] = C11_Byte(wr.Tar, wr.in_w, wr.in_data, off)

----------------------------------------------------------------------------
(* C12: single ownership under acquire, wrap, transfer, dismiss, destroy *)

\* The regions obtained from the allocator.
C12_Allocated == {r \in 1 .. Len(heap) : heap[r].origin = "alloc"}

\* The live blocks that point to region r with the trust flag set.
C12_Owners(r) ==
    {i \in Slots : blocks[i].live /\ blocks[i].trust_ /\ blocks[i].block_ = r}

\* In every state: an allocated region has at most one owner and has been
\* freed at most once; a region of the caller (wrapped) was never freed.
C12_State ==
    /\ \A r \in C12_Allocated :
          /\ Cardinality(C12_Owners(r)) <= 1
          /\ heap[r].frees <= 1
    /\ \A r \in 1 .. Len(heap) : heap[r].origin = "caller" => heap[r].frees = 0

\* In every step: a region that is freed had an owner, and a region that
\* dismiss has returned is not freed.
C12_Step ==
    \A r \in 1 .. Len(heap) :
        heap'[r].frees > heap[r].frees =>
            /\ C12_Owners(r) # {}
            /\ ~heap[r].dismissed

\* C12: under any sequence of acquire, wrap, transfer, dismiss and
\* destruction, a region has at most one trusted live block, a region from
\* the allocator is freed at most once and only by a block that is trusted
\* at that moment, a wrapped region is never freed, and a region returned
\* by dismiss is never freed afterwards.
C12_SingleOwner == [](C12_State) /\ [][C12_Step]_vars

\* A trusted block has just been destroyed and its allocated region is
\* freed once, while another allocated region, returned by dismiss, is not
\* freed.
C12_Witness ==
    /\ last.op = "destroy"
    /\ last.pre_ths.trust_
    /\ last.pre_ths.block_ \in C12_Allocated
    /\ heap[last.pre_ths.block_].frees = 1
    /\ \E r \in C12_Allocated : heap[r].dismissed /\ heap[r].frees = 0

----------------------------------------------------------------------------
(* C13: the canonical array of a source other than rgb_888 *)

\* The region allocated for the canonical array (the first allocation).
C13_Canon == Len(TrHeap) + 1

\* The blocks of the call that own the canonical region.
C13_Owners ==
    {b \in {tr.ret, tr.rv, tr.rgb_data} :
        b.live /\ b.trust_ /\ b.block_ = C13_Canon}

\* A call with a source other than rgb_888 whose allocation succeeded has
\* passed the declaration of ret.
C13_Running ==
    /\ tr.pc \notin {"none", "to_888", "abort", "crash"}
    /\ tr.In # "rgb_888"
    /\ Len(heap) >= C13_Canon

\* C13: in one call of transform with a source other than rgb_888 the
\* canonical array is allocated once with in_w * in_h rgb_t elements, it
\* has exactly one owner after each hand-over (ret, the returned byte
\* block, rgb_data), it is freed exactly once and only after the writer
\* has finished, and the destination block is as it was before the call.
C13_Original ==
    C13_Running =>
        /\ Len(heap) = C13_Canon
        /\ tr.pc # "done" =>
              /\ Cardinality(C13_Owners) = 1
              /\ \A b \in C13_Owners : block_size(b) = tr.in_w * tr.in_h * sizeof_rgb_t
              /\ heap[C13_Canon].frees = 0
        /\ tr.pc \in {"rgb_format", "return"} => tr.ret.count_ = tr.in_w * tr.in_h
        /\ tr.pc \in {"transform_to", "destroy"} =>
              tr.rgb_data.count_ = tr.in_w * tr.in_h
        /\ tr.pc \in {"destroy", "done"} =>
              tr.canon = [ptr |-> C13_Canon, count |-> tr.in_w * tr.in_h]
        /\ tr.pc = "done" => heap[C13_Canon].frees = 1
        /\ tr.ot_data = [live |-> TRUE, T |-> "byte_t", block_ |-> DstRegion,
                         count_ |-> calculate_size(tr.Ot, tr.in_w, tr.in_h),
                         trust_ |-> TRUE]
        /\ heap[DstRegion].frees = 0

----------------------------------------------------------------------------
(* C14: the block-subsampling writers on whole blocks *)

\* The block side n of a block-subsampled target.
C14_n(Tar) == IF Tar \in {"yuv_YV12", "yuv_YU12", "yuv_NV12", "yuv_NV21"} THEN 2 ELSE 4

C14_Targets == {"yuv_YV12", "yuv_YU12", "yuv_NV12", "yuv_NV21", "yuv_YUV9", "yuv_YVU9"}

\* The destination offsets of the k-th U and the k-th V sample (from 0).
C14_UAt(Tar, s, k) ==
    CASE Tar \in {"yuv_YU12", "yuv_YUV9"} -> s + k
      [] Tar = "yuv_YV12" -> s + (s \div 4) + k
      [] Tar = "yuv_YVU9" -> s + (s \div 16) + k
      [] Tar = "yuv_NV12" -> s + 2 * k
      [] Tar = "yuv_NV21" -> s + 2 * k + 1

C14_VAt(Tar, s, k) ==
    CASE Tar \in {"yuv_YV12", "yuv_YVU9"} -> s + k
      [] Tar = "yuv_YU12" -> s + (s \div 4) + k
      [] Tar = "yuv_YUV9" -> s + (s \div 16) + k
      [] Tar = "yuv_NV12" -> s + 2 * k + 1
      [] Tar = "yuv_NV21" -> s + 2 * k

\* A block-subsampling writer has run on an image whose width and height
\* are multiples of the block side, with its accumulators allocated.
C14_WholeBlocks ==
    /\ wr.op = "transform_to"
    /\ wr.Tar \in C14_Targets
    /\ wr.in_w % C14_n(wr.Tar) = 0
    /\ wr.in_h % C14_n(wr.Tar) = 0
    /\ wr.ok_u /\ wr.ok_v

\* C14: for width and height multiples of the block side n, the k-th
\* emitted U (resp. V) sample, blocks counted in row-major order, is the
\* floor of the sum of the converted U (resp. V) of the n * n pixels of
\* block k divided by n * n; nothing of an earlier block row or of
\* unassigned memory enters a sum, and one sample is emitted per block.
C14_BlockFloorAverage ==
    C14_WholeBlocks =>
        LET s == wr.in_w * wr.in_h
            n == C14_n(wr.Tar)
            nblocks == (wr.in_w \div n) * (wr.in_h \div n)
        IN /\ wr.out.emits = nblocks
           /\ ~wr.out.acc_uninit
           /\ ~wr.out.acc_bad
           /\ \A k \in 0 .. nblocks - 1 :
                LET B == C11_Block(n, wr.in_w, k) IN
                /\ Cardinality(B) = n * n
                /\ wr.out.dest[C14_UAt(wr.Tar, s, k)]
                     = C11_SumOver("plane_U", wr.in_data, B) \div (n * n)
                /\ wr.out.dest[C14_VAt(wr.Tar, s, k)]
                     = C11_SumOver("plane_V", wr.in_data, B) \div (n * n)
                /\ wr.out.wcnt[C14_UAt(wr.Tar, s, k)] = 1
                /\ wr.out.wcnt[C14_VAt(wr.Tar, s, k)] = 1

\* A 4 x 8 image, two 4 x 4 blocks one above the other, written as YUV9
\* with different U samples for the two blocks; and likewise an 8 x 4
\* image is two blocks side by side.
C14_Witness ==
    /\ C14_WholeBlocks
    /\ wr.Tar = "yuv_YUV9"
    /\ wr.in_w = 4 /\ wr.in_h = 8
    /\ wr.out.emits = 2
    /\ wr.out.dest[32] # wr.out.dest[33]
    /\ wr.out.dest[32] # Unwritten /\ wr.out.dest[33] # Unwritten

----------------------------------------------------------------------------
(* C15: unpacking the 16-bit formats *)

\* The source word of canonical pixel k (from 1), low byte first.
C15_p(k) == call.in_rgb[2 * k - 1] + 256 * call.in_rgb[2 * k]

\* The bits of a field of wd bits that starts lo bits up in p, moved to
\* the top of a byte.
C15_Field(p, lo, wd) == ((p \div (2 ^ lo)) % (2 ^ wd)) * (2 ^ (8 - wd))

\* C15: for rgb_565 and rgb_555 each source word p, read low byte first,
\* gives one canonical pixel whose channels are the fields of p in the top
\* bits of the byte with zero below them (565: r = bits 11-15, g = bits
\* 5-10, b = bits 0-4; 555: r = bits 10-14, g = bits 5-9, b = bits 0-4),
\* so full scale is 248 or 252; one pixel is stored per two source bytes.
C15_Unpack16 ==
    (call.op = "rgb_format" /\ call.tag \in {"rgb_565", "rgb_555"} /\ call.ran) =>
        /\ call.in_count = 2 * call.w * call.h
        /\ call.reads = call.in_count
        /\ Len(call.stored) * 2 = call.in_count
        /\ \A k \in 1 .. Len(call.stored) :
             LET p == C15_p(k) IN
             /\ call.tag = "rgb_565" =>
                  call.stored[k] = rgb_t(C15_Field(p, 11, 5), C15_Field(p, 5, 6),
                                         C15_Field(p, 0, 5))
             /\ call.tag = "rgb_555" =>
                  call.stored[k] = rgb_t(C15_Field(p, 10, 5), C15_Field(p, 5, 5),
                                         C15_Field(p, 0, 5))
             /\ \A c \in 1 .. 3 : call.stored[k][c] <= 252

\* The full-scale word 0xFFFF unpacked as rgb_565: 248, 252, 248.
C15_Witness ==
    /\ call.op = "rgb_format"
    /\ call.tag = "rgb_565"
    /\ call.ran
    /\ call.in_rgb = <<255, 255>>
    /\ call.stored = <<rgb_t(248, 252, 248)>>

----------------------------------------------------------------------------
(* C16: normalizing an rgb_444 source *)

\* The high and the low nibble of a byte, each in the top four bits.
C16_High(x) == (x \div 16) * 16
C16_Low(x) == (x % 16) * 16

\* The canonical pixel i (from 1) that three source bytes for two pixels
\* stand for.
C16_Pixel(i) ==
    LET k == (i + 1) \div 2
        b0 == call.in_rgb[3 * k - 2]
        b1 == call.in_rgb[3 * k - 1]
        b2 == call.in_rgb[3 * k]
    IN IF i % 2 = 1 THEN rgb_t(C16_Low(b1), C16_High(b0), C16_Low(b0))
       ELSE rgb_t(C16_High(b2), C16_Low(b2), C16_High(b1))

\* C16: for an rgb_444 source of any width and height the normalizer,
\* given in_count = calculate_size<rgb_444>(width, height), passes its
\* in_count % 3 == 0 assertion, reads no source byte at or beyond in_count,
\* stores exactly width * height canonical pixels and none beyond, and
\* each three source bytes give two pixels by the nibble rule.
C16_Original ==
    (call.op = "rgb_format" /\ call.tag = "rgb_444") =>
        /\ call.assert_ok
        /\ call.ran
        /\ call.reads <= call.in_count
        /\ Len(call.stored) = call.w * call.h
        /\ \A i \in 1 .. Len(call.stored) :
             3 * ((i + 1) \div 2) <= call.in_count => call.stored[i] = C16_Pixel(i)

----------------------------------------------------------------------------
(* C17: what a writer reads and stores *)

\* C17: for every YUV target and every width and height that meet the
\* target's precondition on the pixel count, one conversion reads only
\* canonical pixels below width * height, stores every destination byte
\* at offsets 0 .. calculate_size - 1 exactly once and stores to no other
\* offset.
C17_Original ==
    (wr.op = "transform_to" /\ wr.ok_u /\ wr.ok_v) =>
        /\ wr.out.rd_oob = {}
        /\ wr.out.oob = {}
        /\ ~wr.out.crashed
        /\ \A off \in 0 .. calculate_size(wr.Tar, wr.in_w, wr.in_h) - 1 :
             wr.out.wcnt[off] = 1

----------------------------------------------------------------------------
(* C18: the accumulators of the block-subsampling writers *)

\* C18: in the 4:2:0 and the 4:1:0 writers, for every width and height
\* whose pixel count meets the target's precondition, every accumulator
\* access is through a non-null pointer at an index below the element
\* count, and every entry is assigned before it is added to or read.
C18_Original ==
    (wr.op = "transform_to" /\ wr.Tar \in AccTags /\ wr.ok_u /\ wr.ok_v) =>
        /\ ~wr.out.acc_bad
        /\ ~wr.out.acc_uninit

----------------------------------------------------------------------------
(* C19: the range of the RGB-to-YUV values *)

\* The value of the call's plane for its pixel, before clip.
C19_Value ==
    convert_value(factor_matrix[call.tag],
                  planes_cast(rgb_t(call.c1, call.c2, call.c3)))

\* The shift of the 4:1:0 average and the samples one accumulator entry
\* sums there (a 4 x 4 block), the most of any writer.
C19_Shift == set_shift("yuv_YUV9")
C19_Samples == 2 ^ C19_Shift

\* C19: for an RGB pixel with channels in 0..255 the value computed before
\* clipping is within 16..235 for Y and within 16..240 for U and V, so
\* clip returns it unchanged; sixteen such samples sum to less than 65536
\* and their average, the sum shifted right by 4, is below 256.
C19_RangeBeforeClip ==
    (call.op = "pixel_convert" /\ call.tag \in YuvPlanes) =>
        /\ C19_Value >= 16
        /\ C19_Value <= (IF call.tag = "plane_Y" THEN 235 ELSE 240)
        /\ call.ret = C19_Value
        /\ C19_Samples * C19_Value < 65536
        /\ Shr(ToU16(C19_Samples * C19_Value), C19_Shift) = C19_Value
        /\ ToU8(Shr(ToU16(C19_Samples * C19_Value), C19_Shift)) = C19_Value

\* Full blue converted to U: 240, the upper end of the chroma range.
C19_Witness ==
    /\ call.op = "pixel_convert"
    /\ call.tag = "plane_U"
    /\ call.c1 = 0 /\ call.c2 = 0 /\ call.c3 = 255
    /\ call.ret = 240

====
